---- MODULE Spec2Model ----
(***************************************************************************)
(* Name resolution over stack graphs.                                      *)
(*                                                                         *)
(* The graph construction rules are those of the Python rule set           *)
(* (src/unnamed/part_000); the stack-path resolver that walks the graphs   *)
(* is the one the specification describes in its section 4.6.              *)
(***************************************************************************)
EXTENDS Integers, Sequences, FiniteSets, TLC

\* Deepest symbol stack the resolver is followed to; a traversal that needs a
\* deeper one is recorded as growing without bound.
MaxStack == 6

(***************************************************************************)
(* Graph store: nodes, their attributes, and edges with a precedence.      *)
(***************************************************************************)

\* A graph node is <<path of the syntax node that owns it, port name>>.
Root == << << >>, "root" >>

\* The absent node: an unset scoped variable, or a stack entry with no scope.
nil == << << >>, "nil" >>

\* A node with no attribute set: a plain scope node.
Scope ==
  [op |-> "none", sym |-> "", scope |-> nil,
   definition |-> FALSE, reference |-> FALSE, endpoint |-> FALSE]

Push(s) == [Scope EXCEPT !.op = "push", !.sym = s]
PushScoped(s, payload) == [Scope EXCEPT !.op = "push", !.sym = s, !.scope = payload]
Pop(s) == [Scope EXCEPT !.op = "pop", !.sym = s]
Definition(s) == [Scope EXCEPT !.op = "pop", !.sym = s, !.definition = TRUE]
Reference(s) == [Scope EXCEPT !.op = "push", !.sym = s, !.reference = TRUE]
Drop == [Scope EXCEPT !.op = "drop"]
Endpoint == [Scope EXCEPT !.endpoint = TRUE]

Edge(a, b, p) == [src |-> a, dst |-> b, precedence |-> p]

Max(S) == CHOOSE x \in S : \A y \in S : y <= x
Min(S) == CHOOSE x \in S : \A y \in S : x <= y

(***************************************************************************)
(* Hand-built graphs: one skeleton whose node roles, pop symbols,          *)
(* precedences and back edge vary.                                         *)
(*                                                                         *)
(*   ref -> x -> y -> s -> m -> d2        root -> d4                       *)
(*                    s -> d1 -> root     m -> d1, m -> s (back edge)      *)
(*                         d1 -> d2                                        *)
(***************************************************************************)
H(i) == << <<i>>, "h" >>

hRef == H(0)
hX == H(1)
hY == H(2)
hS == H(3)
hM == H(4)
hD1 == H(5)
hD2 == H(6)
hD4 == H(7)

HandNodes == {hRef, hX, hY, hS, hM, hD1, hD2, hD4, Root}

HandKinds == {"scope", "pushscope", "push", "drop", "endpoint", "popscope", "pop"}

HandAttr(kind, n) ==
  CASE kind = "pushscope" -> PushScoped("()", n)
    [] kind = "push" -> Push("b")
    [] kind = "drop" -> Drop
    [] kind = "endpoint" -> Endpoint
    [] kind = "popscope" -> Pop("()")
    [] kind = "pop" -> Pop("b")
    [] OTHER -> Scope

\* The back edge is varied on the graphs whose definitions all pop "a" at
\* precedence 0.
HandUnits ==
  {u \in [x : {"scope", "pushscope", "push"},
          y : {"scope", "pushscope", "drop"},
          m : {"scope", "endpoint", "drop", "popscope", "pop", "push"},
          d1 : {"a", "b"}, d2 : {"a", "b"}, d4 : {"a", "b"},
          q1 : {0, 1}, qm : {0, 1}, pm : {0, 1}, back : BOOLEAN] :
     u.back => (u.d1 = "a" /\ u.d2 = "a" /\ u.d4 = "a"
                /\ u.q1 = 0 /\ u.qm = 0 /\ u.pm = 0)}

HandGraph(u) ==
  [attr |->
     [n \in HandNodes |->
        CASE n = hRef -> Reference("a")
          [] n = hX -> HandAttr(u.x, n)
          [] n = hY -> HandAttr(u.y, n)
          [] n = hM -> HandAttr(u.m, n)
          [] n = hD1 -> Definition(u.d1)
          [] n = hD2 -> Definition(u.d2)
          [] n = hD4 -> Definition(u.d4)
          [] OTHER -> Scope],
   edges |->
     {Edge(hRef, hX, 0), Edge(hX, hY, 0), Edge(hY, hS, 0),
      Edge(hS, hM, u.qm), Edge(hS, hD1, u.q1),
      Edge(hM, hD2, 0), Edge(hM, hD1, u.pm),
      Edge(hD1, Root, 0), Edge(hD1, hD2, 0), Edge(Root, hD4, 0)}
     \cup (IF u.back THEN {Edge(hM, hS, 0)} ELSE {})]

(***************************************************************************)
(* Syntax trees: what the parser hands to the rule set.  A tree node has   *)
(* its kind, the field it fills in its parent, the supertype it stands     *)
(* for there (pattern, primary_expression, parameter), its source text,    *)
(* and its named children.                                                 *)
(***************************************************************************)
N(kind, field, sup, text, kids) ==
  [kind |-> kind, field |-> field, sup |-> sup, text |-> text, kids |-> kids]

Ident(field, sup, text) == N("identifier", field, sup, text, << >>)
Integer(field) == N("integer", field, "primary_expression", "1", << >>)
Block(field, stmts) == N("block", field, "", "", stmts)
ExprStmt(e) == N("expression_statement", "", "", "", <<e>>)

\* name = 1
Assign(name) ==
  ExprStmt(N("assignment", "", "", "",
             <<Ident("left", "pattern", name), Integer("right")>>))

\* name
Use(name) == ExprStmt(Ident("", "primary_expression", name))

\* obj.name as an expression, obj.name as an assignment target
Attribute(field, sup, obj, name) ==
  N("attribute", field, sup, "", <<obj, Ident("attribute", "", name)>>)

\* obj.name = 1
AssignAttr(obj, name) ==
  ExprStmt(N("assignment", "", "", "",
             <<Attribute("left", "pattern", Ident("object", "primary_expression", obj), name),
               Integer("right")>>))

\* target = obj.name
AssignFromAttr(target, obj, name) ==
  ExprStmt(N("assignment", "", "", "",
             <<Ident("left", "pattern", target),
               Attribute("right", "primary_expression",
                         Ident("object", "primary_expression", obj), name)>>))

\* fn().name
UseCallAttr(fn, name) ==
  ExprStmt(Attribute("", "primary_expression",
             N("call", "object", "primary_expression", "",
               <<Ident("function", "primary_expression", fn),
                 N("argument_list", "arguments", "", "", << >>)>>),
             name))

If(stmts) ==
  N("if_statement", "", "", "", <<Integer("condition"), Block("consequence", stmts)>>)

IfElse(stmts) ==
  N("if_statement", "", "", "",
    <<Integer("condition"),
      Block("consequence", <<N("pass_statement", "", "", "", << >>)>>),
      N("else_clause", "alternative", "", "", <<Block("body", stmts)>>)>>)

For(stmts) ==
  N("for_statement", "", "", "",
    <<Ident("left", "pattern", "i"), Integer("right"), Block("body", stmts)>>)

While(stmts) ==
  N("while_statement", "", "", "", <<Integer("condition"), Block("body", stmts)>>)

\* def name(params): stmts
Def(name, params, stmts) ==
  N("function_definition", "", "", "",
    <<Ident("name", "", name),
      N("parameters", "parameters", "", "",
        [i \in DOMAIN params |-> Ident("", "parameter", params[i])]),
      Block("body", stmts)>>)

\* class name: stmts
Class(name, stmts) ==
  N("class_definition", "", "", "", <<Ident("name", "", name), Block("body", stmts)>>)

\* from . import name
FromDotImport(name) ==
  N("import_from_statement", "", "", "",
    <<N("relative_import", "module_name", "", "",
        <<N("import_prefix", "", "", ".", << >>)>>),
      N("dotted_name", "name", "", "", <<Ident("", "", name)>>)>>)

\* import name
Import(name) ==
  N("import_statement", "", "", "",
    <<N("dotted_name", "name", "", "", <<Ident("", "", name)>>)>>)

\* import name as alias
ImportAs(name, alias) ==
  N("import_statement", "", "", "",
    <<N("aliased_import", "name", "", "",
        <<N("dotted_name", "name", "", "", <<Ident("", "", name)>>),
          Ident("alias", "", alias)>>)>>)

\* obj.name
UseAttr(obj, name) ==
  ExprStmt(Attribute("", "primary_expression",
                     Ident("object", "primary_expression", obj), name))

\* n1, n2, ... = 1
AssignList(names) ==
  ExprStmt(N("assignment", "", "", "",
             <<N("pattern_list", "left", "pattern", "",
                 [i \in DOMAIN names |-> Ident("", "pattern", names[i])]),
               Integer("right")>>))

\* pass
Pass == N("pass_statement", "", "", "", << >>)

\* return name
ReturnStmt(name) ==
  N("return_statement", "", "", "", <<Ident("", "primary_expression", name)>>)

\* class name(supers): stmts
ClassOf(name, supers, stmts) ==
  N("class_definition", "", "", "",
    <<Ident("name", "", name),
      N("argument_list", "superclasses", "", "",
        [i \in DOMAIN supers |-> Ident("", "primary_expression", supers[i])]),
      Block("body", stmts)>>)

\* from <prefix> import name, with prefix "." or ".."
FromRelativeImport(prefix, name) ==
  N("import_from_statement", "", "", "",
    <<N("relative_import", "module_name", "", "",
        <<N("import_prefix", "", "", prefix, << >>)>>),
      N("dotted_name", "name", "", "", <<Ident("", "", name)>>)>>)

\* from m import *
FromImportStar(m) ==
  N("import_from_statement", "", "", "",
    <<N("dotted_name", "module_name", "", "", <<Ident("", "", m)>>),
      N("wildcard_import", "", "", "", << >>)>>)

\* case name: stmts
Case(name, stmts) ==
  N("case_clause", "", "", "",
    <<N("case_pattern", "pattern", "", "", <<Ident("", "primary_expression", name)>>),
      Block("consequence", stmts)>>)

\* match v: clauses
Match(clauses) ==
  N("match_statement", "", "", "", <<Ident("subject", "primary_expression", "v")>> \o clauses)

Module(stmts) == N("module", "", "", "", stmts)

\* A file: the directories of its path, its file name, and its tree.
File(dirs, name, tree) == [dirs |-> dirs, name |-> name, tree |-> tree]

(***************************************************************************)
(* The programs that are built and queried.                                *)
(***************************************************************************)
Stmt(o, name) == IF o = "def" THEN Assign(name) ELSE Use(name)

Nest(kind, stmts) ==
  CASE kind = "if" -> If(stmts)
    [] kind = "else" -> IfElse(stmts)
    [] kind = "for" -> For(stmts)
    [] kind = "while" -> While(stmts)
    [] kind = "forif" -> For(<<If(stmts)>>)
    [] kind = "function" -> Def("f", << >>, stmts)
    [] OTHER -> Class("K", stmts)

NestKinds == {"if", "else", "for", "while", "forif", "function", "class"}

YesNo == {"yes", "no"}

Optional(o, stmt) == IF o = "yes" THEN <<stmt>> ELSE << >>

\* "block": s1; <nest>: t1; t2    s3      (statements on the name x)
\* "member": class C: [m = 1]; def f(self): [self.m = 1]; def g(): m    [m = 1]
\* "package": pkg/__init__.py and pkg/mod.py of the concrete scenario
\* "selfimport": pkg/__init__.py importing from its own package
\* "chain": x = x.y
\* "call": def f(): h().a
\* "alias": foo.py, a.py with "import foo", b.py with "import foo as bar"
\* "wildcard": m.py with [n = 1]; other = 1, and main.py with n = 1 and
\*          from m import * in either order, then n
\* "match": [a = 1 | a]; match v: case a: a   case b: a;   a
\* "inherit": class A: [m = 1]; other = 1   class B: [m = 1]; other = 1
\*          class C(A, B): [m = 1]; def f(self): self.m
\*          C.m   C().m
\* "returns": class K1: a = 1   class K2: a = 1   class K3: a = 1
\*          def f(): [if 1: return K1]; def g(): return K3;   return K2
\*          f().a
\* "rebind": f = 1; <f = 1 | import f | def f(): pass | class f: pass |
\*          import m as f>; f
\* "tuple": n1, n2, n3 = 1; a     with each name a or b
\* "paths": one file, at the top level, in pkg/ or in pkg/sub/, named
\*          __init__.py or mod.py: from <prefix> import x; x; x.y = 1; z = x.y
\* "alias": foo.py: [baz = 1]   a.py: import foo; foo.baz
\*          b.py: import foo as bar; bar.baz
RebindKinds == {"assign", "import", "def", "class", "alias"}

Rebind(kind) ==
  CASE kind = "assign" -> Assign("f")
    [] kind = "import" -> Import("f")
    [] kind = "def" -> Def("f", << >>, <<Pass>>)
    [] kind = "class" -> Class("f", <<Pass>>)
    [] OTHER -> ImportAs("m", "f")

Programs ==
  [name : {"block"},
   opts : {<<s1, "none", "ref", "ref", s3>> : s1 \in {"def", "ref"}, s3 \in {"def", "ref"}}
          \cup ({"def", "ref"} \X NestKinds \X {"def", "ref"} \X {"def", "ref"} \X {"def", "ref"})]
  \cup [name : {"member"}, opts : YesNo \X YesNo \X YesNo]
  \cup [name : {"package", "selfimport", "chain", "call"}, opts : {<< >>}]
  \cup [name : {"alias"}, opts : {<<o>> : o \in YesNo}]
  \cup [name : {"wildcard"}, opts : {"explicit-first", "wildcard-first"} \X YesNo]
  \cup [name : {"match"}, opts : {<<o>> : o \in YesNo}]
  \cup [name : {"inherit"}, opts : YesNo \X YesNo \X YesNo]
  \cup [name : {"returns"}, opts : {<<o>> : o \in YesNo}]
  \cup [name : {"rebind"}, opts : {<<k>> : k \in RebindKinds}]
  \cup [name : {"tuple"}, opts : {"a", "b"} \X {"a", "b"} \X {"a", "b"}]
  \cup [name : {"paths"},
        opts : {<< >>, <<"pkg">>, <<"pkg", "sub">>} \X {"__init__.py", "mod.py"}
               \X {".", ".."}]

Source(p) ==
  LET o == p.opts IN
  CASE p.name = "block" ->
         <<File(<< >>, "main.py",
                Module(<<Stmt(o[1], "x")>>
                       \o (IF o[2] = "none" THEN << >>
                           ELSE <<Nest(o[2], <<Stmt(o[3], "x"), Stmt(o[4], "x")>>)>>)
                       \o <<Stmt(o[5], "x")>>))>>
    [] p.name = "member" ->
         <<File(<< >>, "main.py",
                Module(<<Class("C",
                   Optional(o[1], Assign("m"))
                   \o <<Def("f", <<"self">>,
                            Optional(o[2], AssignAttr("self", "m"))
                            \o <<Def("g", << >>, <<Use("m")>>)>>)>>
                   \o Optional(o[3], Assign("m")))>>))>>
    [] p.name = "package" ->
         <<File(<<"pkg">>, "__init__.py", Module(<<Assign("VALUE")>>)),
           File(<<"pkg">>, "mod.py", Module(<<FromDotImport("VALUE"), Use("VALUE")>>))>>
    [] p.name = "selfimport" ->
         <<File(<<"pkg">>, "__init__.py",
                Module(<<FromDotImport("y"), Use("y"), Assign("y")>>))>>
    [] p.name = "chain" ->
         <<File(<< >>, "main.py", Module(<<AssignFromAttr("x", "x", "y")>>))>>
    [] p.name = "alias" ->
         <<File(<< >>, "foo.py",
                Module(Optional(o[1], Assign("baz")) \o <<Assign("other")>>)),
           File(<< >>, "a.py", Module(<<Import("foo"), UseAttr("foo", "baz")>>)),
           File(<< >>, "b.py", Module(<<ImportAs("foo", "bar"), UseAttr("bar", "baz")>>))>>
    [] p.name = "wildcard" ->
         <<File(<< >>, "m.py", Module(Optional(o[2], Assign("n")) \o <<Assign("other")>>)),
           File(<< >>, "main.py",
                Module((IF o[1] = "explicit-first"
                          THEN <<Assign("n"), FromImportStar("m")>>
                          ELSE <<FromImportStar("m"), Assign("n")>>)
                       \o <<Use("n")>>))>>
    [] p.name = "match" ->
         <<File(<< >>, "main.py",
                Module(<<Stmt(IF o[1] = "yes" THEN "def" ELSE "ref", "a"),
                         Match(<<Case("a", <<Use("a")>>), Case("b", <<Use("a")>>)>>),
                         Use("a")>>))>>
    [] p.name = "inherit" ->
         <<File(<< >>, "main.py",
                Module(<<Class("A", Optional(o[1], Assign("m")) \o <<Assign("other")>>),
                         Class("B", Optional(o[2], Assign("m")) \o <<Assign("other")>>),
                         ClassOf("C", <<"A", "B">>,
                                 Optional(o[3], Assign("m"))
                                 \o <<Def("f", <<"self">>, <<UseAttr("self", "m")>>)>>),
                         UseAttr("C", "m"),
                         UseCallAttr("C", "m")>>))>>
    [] p.name = "returns" ->
         <<File(<< >>, "main.py",
                Module(<<Class("K1", <<Assign("a")>>),
                         Class("K2", <<Assign("a")>>),
                         Class("K3", <<Assign("a")>>),
                         Def("f", << >>,
                             Optional(o[1], If(<<ReturnStmt("K1")>>))
                             \o <<Def("g", << >>, <<ReturnStmt("K3")>>), ReturnStmt("K2")>>),
                         UseCallAttr("f", "a")>>))>>
    [] p.name = "rebind" ->
         <<File(<< >>, "main.py", Module(<<Assign("f"), Rebind(o[1]), Use("f")>>))>>
    [] p.name = "tuple" ->
         <<File(<< >>, "main.py", Module(<<AssignList(o), Use("a")>>))>>
    [] p.name = "paths" ->
         <<File(o[1], o[2],
                Module(<<FromRelativeImport(o[3], "x"), Use("x"),
                         AssignAttr("x", "y"), AssignFromAttr("z", "x", "y")>>))>>
    [] OTHER ->
         <<File(<< >>, "main.py",
                Module(<<Def("f", << >>, <<UseCallAttr("h", "a")>>)>>))>>

\* The syntax nodes of a program, by path: file i is rooted at <<i>>.
RECURSIVE Flat(_, _)
Flat(t, p) ==
  {<<p, [kind |-> t.kind, field |-> t.field, sup |-> t.sup, text |-> t.text,
         arity |-> Len(t.kids)]>>}
  \cup UNION {Flat(t.kids[i], Append(p, i)) : i \in DOMAIN t.kids}

Syntax(files) ==
  LET S == UNION {Flat(files[i].tree, <<i>>) : i \in DOMAIN files} IN
  [p \in {x[1] : x \in S} |-> (CHOOSE x \in S : x[1] = p)[2]]

Parent(p) == SubSeq(p, 1, Len(p) - 1)
Children(T, p) == {Append(p, i) : i \in 1 .. T[p].arity}
Kids(T, p, kind) == {c \in Children(T, p) : T[c].kind = kind}
Fields(T, p, field) == {c \in Children(T, p) : T[c].field = field}
LastChild(T, p) == Append(p, T[p].arity)
Of(T, kind) == {p \in DOMAIN T : T[p].kind = kind}
Position(p) == p[Len(p)]

\* (child-index node): the position among the named children, from 0.
ChildIndex(p) == Position(p) - 1

\* A module or a block: the parents of statements.
Blocks(T) == Of(T, "module") \cup Of(T, "block")
Statements(T) == UNION {Children(T, b) : b \in Blocks(T)}


(***************************************************************************)
(* The Python rule set: one definition per stanza, giving the edges and    *)
(* the node attributes the stanza adds for every match in the tree.        *)
(***************************************************************************)
Port(p, name) == <<p, name>>

\* The graph node of a captured syntax node itself (as in "-> @name").
Self(p) == <<p, "@">>

Link(a, b) == Edge(a, b, 0)

Attr(n, key, sym) == [node |-> n, key |-> key, sym |-> sym, scope |-> nil]
AttrScope(n, key, payload) == [node |-> n, key |-> key, sym |-> "", scope |-> payload]

Stanza(edges, attrs) == [edges |-> edges, attrs |-> attrs]

\* Chain nodes module_def, module_def.next_def, ... and their .dot nodes.
DefPorts == <<"file_def", "file_def.next_def", "file_def.next_def.next_def",
              "file_def.next_def.next_def.next_def">>
DefDotPorts == <<"file_def.dot", "file_def.next_def.dot",
                 "file_def.next_def.next_def.dot">>
RefPorts == <<"file_ref", "file_ref.next_ref", "file_ref.next_ref.next_ref">>
RefDotPorts == <<"file_ref.dot", "file_ref.next_ref.dot">>

ModuleDef(m, j) == Port(m, DefPorts[j + 1])
ModuleDefDot(m, j) == Port(m, DefDotPorts[j + 1])
ModuleRef(m, j) == Port(m, RefPorts[j + 1])
ModuleRefDot(m, j) == Port(m, RefDotPorts[j + 1])

\* scan filepath: "__init__\.py$" wins over "([^/]+)$" on the last segment.
IsInit(f) == f.name = "__init__.py"

\* (replace $1 "\.py" ""): the last segment without its ".py".
ReplacePy(name) ==
  CASE name = "mod.py" -> "mod"
    [] name = "main.py" -> "main"
    [] name = "__init__.py" -> "__init__"
    [] name = "foo.py" -> "foo"
    [] name = "m.py" -> "m"
    [] name = "a.py" -> "a"
    [] name = "b.py" -> "b"
    [] OTHER -> name

\* Mutant of LeafSymbol: the last segment keeps its ".py".
LeafSymbolRaw(f) == f.name

LeafSymbol(f) == ReplacePy(f.name)

\* parent_module_ref and grandparent_module_ref after the scan.
ParentModuleRef(f, m) ==
  IF Len(f.dirs) = 0 THEN ModuleRef(m, 0) ELSE ModuleRef(m, Len(f.dirs) - 1)

\* Mutant of GrandparentModuleRef: ".." refers to the containing package.
GrandparentAsParent(f, m) == ParentModuleRef(f, m)

GrandparentModuleRef(f, m) ==
  IF Len(f.dirs) <= 1 THEN ModuleRef(m, 0) ELSE ModuleRef(m, Len(f.dirs) - 2)

\* module_def after the scan: the node that leads to the module's scope.
LastModuleDef(f, m) ==
  IF IsInit(f) THEN ModuleDef(m, Len(f.dirs)) ELSE ModuleDef(m, Len(f.dirs) + 1)

\* Scoped variables (@node::name) set on the node p itself: {} if none is.
Own(files, T, p, var) ==
  CASE var = "local_scope" ->
         IF p \in Statements(T) THEN {Port(p, "before_scope")}
         ELSE IF T[p].kind = "case_clause" /\ T[Parent(p)].kind = "match_statement"
           THEN {Port(p, "before_scope")}
         ELSE IF Len(p) > 1 /\ T[Parent(p)].kind \in {"pattern_list", "tuple_pattern"}
           THEN {Port(p, "pattern_before_scope")}
         ELSE {}
    [] var \in {"class_self_scope", "class_member_attr_scope"} ->
         IF T[p].kind = "class_definition"
           THEN {Port(p, IF var = "class_self_scope" THEN "call_drop" ELSE "member_attrs")}
         ELSE IF T[p].kind = "block" /\ T[p].field = "body"
                 /\ T[Parent(p)].kind = "function_definition"
           THEN {nil}
         ELSE {}
    [] var = "class_parent_scope" ->
         IF T[p].kind = "class_definition" THEN {Port(p, "parent_scope")} ELSE {}
    [] var = "super_scope" ->
         IF T[p].kind = "class_definition" THEN {Port(p, "super_scope")} ELSE {}
    [] var = "function_returns" ->
         IF T[p].kind = "function_definition" THEN {Port(p, "return_value")} ELSE {}
    [] var = "parent_module" ->
         IF T[p].kind = "module" THEN {ParentModuleRef(files[p[1]], p)} ELSE {}
    [] var = "grandparent_module" ->
         IF T[p].kind = "module" THEN {GrandparentModuleRef(files[p[1]], p)} ELSE {}
    [] var = "bottom" ->
         IF T[p].kind = "module" THEN {Port(p, "after_scope")} ELSE {}
    [] var = "global" ->
         IF T[p].kind = "module" THEN {Port(p, "global")} ELSE {}
    [] var = "global_dot" ->
         IF T[p].kind = "module" THEN {Port(p, "global_dot")} ELSE {}
    [] OTHER -> {}

\* @node::name: the value set on the nearest enclosing node, nil if none.
RECURSIVE Scoped(_, _, _, _)
Scoped(files, T, p, var) ==
  IF p \notin DOMAIN T THEN nil
  ELSE LET own == Own(files, T, p, var) IN
       IF own # {} THEN CHOOSE v \in own : TRUE
       ELSE Scoped(files, T, Parent(p), var)

\* Mutant of ModuleEntry: every file is entered through the first file's
\* module-definition node.
ModuleEntryFirst(m) ==
  {Link(Root, Port(<<1>>, "file_def")), Link(Port(m, "file_ref"), Root)}

\* edge ROOT_NODE -> module_def, edge module_ref -> ROOT_NODE
ModuleEntry(m) ==
  {Link(Root, Port(m, "file_def")), Link(Port(m, "file_ref"), Root)}

\* (module) @mod
ModuleRule(files, T) ==
  LET Dirs(m) == files[m[1]].dirs
      Count(m) == Len(files[m[1]].dirs)
  IN Stanza(
    UNION {
      UNION {{Link(ModuleDef(m, j), ModuleDefDot(m, j)),
              Link(ModuleDefDot(m, j), ModuleDef(m, j + 1)),
              Link(ModuleRef(m, j + 1), ModuleRefDot(m, j)),
              Link(ModuleRefDot(m, j), ModuleRef(m, j))} : j \in 0 .. Count(m) - 1}
      \cup (IF IsInit(files[m[1]]) THEN {}
            ELSE {Link(ModuleDef(m, Count(m)), ModuleDefDot(m, Count(m))),
                  Link(ModuleDefDot(m, Count(m)), ModuleDef(m, Count(m) + 1))})
      \cup ModuleEntry(m)
      \cup {Link(LastModuleDef(files[m[1]], m), Port(m, "after_scope")),
            Link(Port(m, "before_scope"), Port(m, "global_dot")),
            Link(Port(m, "global"), Root),
            Link(Port(m, "global_dot"), Port(m, "global"))}
      : m \in Of(T, "module")},
    UNION {
      UNION {{Attr(ModuleDef(m, j), "pop", Dirs(m)[j + 1]),
              Attr(ModuleDefDot(m, j), "pop", "."),
              Attr(ModuleRef(m, j), "push", Dirs(m)[j + 1]),
              Attr(ModuleRefDot(m, j), "push", ".")} : j \in 0 .. Count(m) - 1}
      \cup (IF IsInit(files[m[1]])
            THEN {Attr(IF Count(m) = 0 THEN ModuleDef(m, 0) ELSE ModuleDef(m, Count(m) - 1),
                       "definition", "")}
            ELSE {Attr(ModuleDef(m, Count(m)), "definition", ""),
                  Attr(ModuleDef(m, Count(m)), "pop", LeafSymbol(files[m[1]])),
                  Attr(ModuleDefDot(m, Count(m)), "pop", ".")})
      \cup {Attr(ModuleDef(m, j), "no_span", "")
              : j \in 0 .. (IF IsInit(files[m[1]]) THEN Count(m) ELSE Count(m) + 1)}
      \cup {Attr(ModuleRef(m, j), "no_span", "") : j \in 0 .. Count(m)}
      \cup {Attr(Port(m, "global"), "push", "<builtins>"),
            Attr(Port(m, "global_dot"), "push", ".")}
      : m \in Of(T, "module")})

\* The first identifier of a dotted_name: (dotted_name . (identifier) @x)
FirstIdent(T, d) == {c \in Kids(T, d, "identifier") : Position(c) = 1}

\* The last identifier of a dotted_name: (dotted_name (identifier) @x .)
LastIdent(T, d) == {c \in Kids(T, d, "identifier") : c = LastChild(T, d)}

\* (import_statement name: (dotted_name . (identifier) @root_name)) @stmt
ImportNameRule(T) ==
  LET M == UNION {{<<s, r>> : r \in
                     UNION {FirstIdent(T, d)
                              : d \in {d \in Fields(T, s, "name") : T[d].kind = "dotted_name"}}}
                  : s \in Of(T, "import_statement")}
  IN Stanza(
    UNION {{Edge(Port(x[1], "after_scope"), Port(x[2], "def"), 1),
            Link(Port(x[2], "ref"), Root)} : x \in M},
    UNION {{Attr(Port(x[2], "ref"), "push", T[x[2]].text),
            Attr(Port(x[2], "ref"), "reference", ""),
            Attr(Port(x[2], "def"), "pop", T[x[2]].text),
            Attr(Port(x[2], "def"), "definition", "")} : x \in M})

\* (import_statement name: (aliased_import (dotted_name . (identifier) @root_name))) @stmt
ImportAliasedNameRule(T) ==
  LET M == UNION {{<<s, r>> : r \in
                     UNION {UNION {FirstIdent(T, d) : d \in Kids(T, a, "dotted_name")}
                              : a \in {a \in Fields(T, s, "name") :
                                         T[a].kind = "aliased_import"}}}
                  : s \in Of(T, "import_statement")}
  IN Stanza(
    UNION {{Link(Port(x[1], "after_scope"), Port(x[2], "def")),
            Link(Port(x[2], "ref"), Root)} : x \in M},
    UNION {{Attr(Port(x[2], "ref"), "push", T[x[2]].text),
            Attr(Port(x[2], "ref"), "reference", "")} : x \in M})

\* Mutant of AliasTarget: the alias is bound to the name's definition node.
AliasTargetDef(name) == Port(name, "def")

\* The node an alias is bound to.
AliasTarget(name) == Port(name, "ref")

\* [(import_from_statement (aliased_import name: (dotted_name (identifier) @name .)
\*    alias: (identifier) @alias)) (import_statement (aliased_import ...))] @stmt
AliasRule(T) ==
  LET M == UNION {UNION {{<<s, n, al>> : <<n, al>> \in
                            (UNION {LastIdent(T, d)
                                      : d \in {d \in Fields(T, a, "name") :
                                                 T[d].kind = "dotted_name"}})
                            \X {al \in Fields(T, a, "alias") : T[al].kind = "identifier"}}
                         : a \in Kids(T, s, "aliased_import")}
                  : s \in Of(T, "import_statement") \cup Of(T, "import_from_statement")}
  IN Stanza(
    UNION {{Link(Port(x[1], "after_scope"), Self(x[3])),
            Link(Self(x[3]), AliasTarget(x[2]))} : x \in M},
    UNION {{Attr(Self(x[3]), "pop", T[x[3]].text),
            Attr(Self(x[3]), "definition", "")} : x \in M})

\* name: (dotted_name . (identifier) @import_root_name)
ImportRootNames(T, s) ==
  UNION {FirstIdent(T, d) : d \in {d \in Fields(T, s, "name") : T[d].kind = "dotted_name"}}

\* (import_from_statement name: (dotted_name . (identifier) @import_root_name)) @stmt
ImportFromNameRule(T) ==
  LET M == {<<s, r>> \in Of(T, "import_from_statement") \X DOMAIN T :
              r \in ImportRootNames(T, s)}
  IN Stanza(
    UNION {{Edge(Port(x[1], "after_scope"), Port(x[2], "def"), 1),
            Link(Port(x[2], "ref"), Port(x[2], "ref_dot"))} : x \in M},
    UNION {{Attr(Port(x[2], "def"), "pop", T[x[2]].text),
            Attr(Port(x[2], "def"), "definition", ""),
            Attr(Port(x[2], "ref"), "push", T[x[2]].text),
            Attr(Port(x[2], "ref"), "reference", ""),
            Attr(Port(x[2], "ref_dot"), "push", ".")} : x \in M})

\* module_name: the last name of a dotted module, or of a relative one, or
\* the import prefix of a bare relative import.
PrefixLeafNames(T, s) ==
  UNION {
    IF T[mn].kind = "dotted_name" THEN LastIdent(T, mn)
    ELSE IF T[mn].kind = "relative_import"
      THEN UNION {LastIdent(T, d) : d \in Kids(T, mn, "dotted_name")}
           \cup {c \in Kids(T, mn, "import_prefix") : c = LastChild(T, mn)}
    ELSE {}
    : mn \in Fields(T, s, "module_name")}

\* name: a dotted_name's, or an aliased_import's dotted_name's, first identifier.
ImportedRootNames(T, s) ==
  ImportRootNames(T, s)
  \cup UNION {UNION {FirstIdent(T, d) : d \in Kids(T, a, "dotted_name")}
              : a \in {a \in Fields(T, s, "name") : T[a].kind = "aliased_import"}}

\* (import_from_statement module_name: [...] name: [...])
ImportFromPrefixRule(T) ==
  Stanza(
    UNION {{Link(Port(r, "ref_dot"), Port(l, "ref"))
              : <<l, r>> \in PrefixLeafNames(T, s) \X ImportedRootNames(T, s)}
           : s \in Of(T, "import_from_statement")},
    {})

\* module_name: (dotted_name . (identifier) @prefix_root_name)
PrefixRootNames(T, s) ==
  UNION {FirstIdent(T, d)
           : d \in {d \in Fields(T, s, "module_name") : T[d].kind = "dotted_name"}}

\* (import_from_statement module_name: (dotted_name . (identifier) @prefix_root_name))
ImportFromRootRule(T) ==
  LET M == UNION {PrefixRootNames(T, s) : s \in Of(T, "import_from_statement")} IN
  Stanza(
    {Link(Port(r, "ref"), Root) : r \in M},
    UNION {{Attr(Port(r, "ref"), "push", T[r].text),
            Attr(Port(r, "ref"), "reference", "")} : r \in M})

\* Mutant of WildcardEdge: the wildcard's edge has the default precedence.
WildcardEdgeLow(a, b) == Edge(a, b, 0)

\* edge @stmt.after_scope -> @star.ref_dot, "precedence" = 1
WildcardEdge(a, b) == Edge(a, b, 1)

\* (import_from_statement module_name: (dotted_name (identifier) @leaf_name .)
\*   (wildcard_import) @star) @stmt
WildcardRule(T) ==
  LET M == UNION {
             {<<s, l, w>> : <<l, w>> \in
                (UNION {LastIdent(T, d)
                          : d \in {d \in Fields(T, s, "module_name") : T[d].kind = "dotted_name"}})
                \X Kids(T, s, "wildcard_import")}
             : s \in Of(T, "import_from_statement")}
  IN Stanza(
    UNION {{WildcardEdge(Port(x[1], "after_scope"), Port(x[3], "ref_dot")),
            Link(Port(x[3], "ref_dot"), Port(x[2], "ref"))} : x \in M},
    {Attr(Port(x[3], "ref_dot"), "push", ".") : x \in M})

\* [(import_statement name: (dotted_name (identifier) @leaf_name .)) ...]
LeafNameRule(T) ==
  LET M == UNION {UNION {LastIdent(T, d)
                           : d \in {d \in Fields(T, s, "name") : T[d].kind = "dotted_name"}}
                  : s \in Of(T, "import_statement") \cup Of(T, "import_from_statement")}
  IN Stanza(
    {Link(Port(l, "def"), Port(l, "ref")) : l \in M},
    UNION {{Attr(Port(l, "def"), "pop", T[l].text),
            Attr(Port(l, "def"), "definition", ""),
            Attr(Port(l, "ref"), "push", T[l].text),
            Attr(Port(l, "ref"), "reference", "")} : l \in M})

\* Mutant of RelativeTarget: a relative prefix refers to Root, as an absolute
\* module name does.
RelativeTargetRoot(files, T, import, prefix) == Root

\* The module a relative import's prefix refers to.
RelativeTarget(files, T, import, prefix) ==
  IF prefix = "." THEN Scoped(files, T, import, "parent_module")
  ELSE Scoped(files, T, import, "grandparent_module")

\* (relative_import (import_prefix) @prefix (#eq? @prefix ".")) @import, and ".."
RelativeImportRule(files, T) ==
  Stanza(
    UNION {{Link(Port(px, "ref"), RelativeTarget(files, T, ri, T[px].text))
              : px \in {c \in Kids(T, ri, "import_prefix") : T[c].text \in {".", ".."}}}
           : ri \in Of(T, "relative_import")},
    {})

\* [(module (_) @last_stmt .) (block (_) @last_stmt .)] @block
LastStatementRule(T) ==
  Stanza({Link(Port(b, "after_scope"), Port(LastChild(T, b), "after_scope"))
            : b \in {b \in Blocks(T) : T[b].arity > 0}},
         {})

\* [(module (_) @stmt1 . (_) @stmt2) (block (_) @stmt1 . (_) @stmt2)]
NextStatementRule(T) ==
  Stanza({Link(Port(s, "before_scope"), Port(Append(Parent(s), Position(s) - 1), "after_scope"))
            : s \in {s \in Statements(T) : Position(s) > 1}},
         {})

\* [(module (_) @stmt) (block (_) @stmt)]
StatementRule(T) ==
  Stanza({Link(Port(s, "after_scope"), Port(s, "before_scope")) : s \in Statements(T)}, {})

\* [(block . (_) @stmt) (module . (_) @stmt)] @block
FirstStatementRule(T) ==
  Stanza({Link(Port(s, "before_scope"), Port(Parent(s), "before_scope"))
            : s \in {s \in Statements(T) : Position(s) = 1}},
         {})

\* (function_definition (block) @block)
FunctionBlockRule(files, T) ==
  Stanza(UNION {{Link(Port(b, "before_scope"), Scoped(files, T, b, "local_scope"))
                   : b \in Kids(T, f, "block")}
                : f \in Of(T, "function_definition")},
         {})

CompoundKinds ==
  {"while_statement", "if_statement", "with_statement", "try_statement", "for_statement"}

ClauseKinds == {"else_clause", "elif_clause", "except_clause", "finally_clause"}

\* The blocks of a compound statement: its own, and those of its clauses.
CompoundBlocks(T, s) ==
  (IF T[s].kind \in CompoundKinds THEN Kids(T, s, "block") ELSE {})
  \cup UNION {Kids(T, c, "block") : c \in {c \in Children(T, s) : T[c].kind \in ClauseKinds}}

\* [(while_statement (block) @block) ... (_ [(else_clause (block) @block) ...])] @stmt
CompoundRule(files, T) ==
  Stanza(UNION {UNION {{Link(Port(b, "before_scope"), Scoped(files, T, b, "local_scope")),
                        Link(Port(s, "after_scope"), Port(b, "after_scope"))}
                       : b \in CompoundBlocks(T, s)}
                : s \in DOMAIN T},
         {})

\* Mutant of ClauseBefore: a case clause continues from the clause before it.
ClauseBeforePrevious(stmt, clause) ==
  IF Position(clause) > 2 THEN Port(Append(stmt, Position(clause) - 1), "after_scope")
  ELSE Port(stmt, "before_scope")

\* edge @block.before_scope -> @stmt.before_scope
ClauseBefore(stmt, clause) == Port(stmt, "before_scope")

\* (match_statement (case_clause) @block) @stmt
MatchRule(T) ==
  Stanza(UNION {UNION {{Link(Port(c, "before_scope"), ClauseBefore(s, c)),
                        Link(Port(s, "after_scope"), Port(c, "after_scope"))}
                       : c \in Kids(T, s, "case_clause")}
                : s \in Of(T, "match_statement")},
         {})

\* (case_clause pattern: (_) @pattern consequence: (_) @consequence) @clause
CaseClauseRule(T) ==
  Stanza(UNION {UNION {{Link(Port(x[2], "before_scope"), Port(x[1], "new_bindings")),
                        Link(Port(x[2], "before_scope"), Port(c, "before_scope")),
                        Link(Port(c, "after_scope"), Port(x[2], "after_scope"))}
                       : x \in Fields(T, c, "pattern") \X Fields(T, c, "consequence")}
                : c \in Of(T, "case_clause")},
         {})

\* (case_pattern (_) @expr) @pat
CasePatternRule(T) ==
  Stanza(UNION {{Link(Port(pat, "new_bindings"), Port(e, "new_bindings"))
                   : e \in Children(T, pat)}
                : pat \in Of(T, "case_pattern")},
         {})

\* Mutant of LoopRule: an if statement is wired like a loop.
LoopRuleIf(T) ==
  Stanza({Link(Port(s, "before_scope"), Port(s, "after_scope"))
            : s \in Of(T, "for_statement") \cup Of(T, "while_statement")
                    \cup Of(T, "if_statement")},
         {})

\* [(for_statement) (while_statement)] @stmt
LoopRule(T) ==
  Stanza({Link(Port(s, "before_scope"), Port(s, "after_scope"))
            : s \in Of(T, "for_statement") \cup Of(T, "while_statement")},
         {})

\* (assignment left: (_) @pattern right: (_) @value)
AssignmentRule(T) ==
  Stanza(UNION {{Link(Port(l, "input"), Port(r, "output"))
                   : <<l, r>> \in Fields(T, a, "left") \X Fields(T, a, "right")}
                : a \in Of(T, "assignment")},
         {})

\* The functions with a name, parameters and a body: <<func, name, params, body>>.
Functions(T) ==
  UNION {{<<f, n, ps, b>> : <<n, ps, b>> \in
            {n \in Fields(T, f, "name") : T[n].kind = "identifier"}
            \X {ps \in Fields(T, f, "parameters") : T[ps].kind = "parameters"}
            \X {b \in Fields(T, f, "body") : T[b].kind = "block"}}
         : f \in Of(T, "function_definition")}

\* (function_definition name: (identifier) @name parameters: (parameters) @params
\*   body: (block) @body) @func
FunctionDefinitionRule(files, T) ==
  Stanza(
    UNION {{Link(Port(x[1], "after_scope"), Self(x[2])),
            Link(Self(x[2]), Port(x[1], "call")),
            Link(Port(x[1], "call"), Port(x[1], "return_value")),
            Link(Port(x[4], "before_scope"), Port(x[3], "after_scope")),
            Link(Port(x[4], "before_scope"), Port(x[1], "drop_scope")),
            Link(Port(x[1], "drop_scope"), Scoped(files, T, x[1], "bottom"))}
           : x \in Functions(T)},
    UNION {{Attr(Port(x[1], "drop_scope"), "drop", ""),
            Attr(Self(x[2]), "pop", T[x[2]].text),
            Attr(Self(x[2]), "definition", ""),
            Attr(Port(x[1], "call"), "pop", "()"),
            Attr(Port(x[1], "call"), "pop-scope", ""),
            Attr(Port(x[3], "before_scope"), "jump-to", ""),
            Attr(Port(x[1], "return_value"), "endpoint", "")}
           : x \in Functions(T)})

\* (function_definition parameters: (parameters . (identifier) @param)
\*   body: (block) @body)
FirstParameterRule(files, T) ==
  LET M == UNION {{<<p, b>> : <<p, b>> \in
                     (UNION {{c \in Kids(T, ps, "identifier") : Position(c) = 1}
                             : ps \in {ps \in Fields(T, f, "parameters") :
                                         T[ps].kind = "parameters"}})
                     \X {b \in Fields(T, f, "body") : T[b].kind = "block"}}
                  : f \in Of(T, "function_definition")}
  IN Stanza(
    UNION {{Link(Port(x[1], "input"), Scoped(files, T, x[1], "class_self_scope")),
            Link(Scoped(files, T, x[1], "class_member_attr_scope"), Port(x[1], "output")),
            Link(Port(x[1], "output"), Port(x[2], "after_scope"))} : x \in M},
    {Attr(Port(x[1], "output"), "push", T[x[1]].text) : x \in M})

\* The symbol for a child index.
IndexSymbol(i) == <<"0", "1", "2", "3">>[i + 1]

\* (parameter/identifier) @param
ParameterRule(T) ==
  LET M == {p \in Of(T, "identifier") : T[p].sup = "parameter"} IN
  Stanza(
    UNION {{Link(Port(p, "input"), Port(p, "param_index")),
            Link(Port(p, "input"), Port(p, "param_name"))} : p \in M},
    UNION {{Attr(Port(p, "input"), "definition", ""),
            Attr(Port(p, "input"), "pop", T[p].text),
            Attr(Port(p, "param_name"), "push", T[p].text)} : p \in M})

\* (parameters (_) @param) @params
ParametersRule(T) ==
  LET M == UNION {{<<ps, p>> : p \in Children(T, ps)} : ps \in Of(T, "parameters")} IN
  Stanza(
    UNION {{Link(Port(x[2], "param_index"), Port(x[1], "before_scope")),
            Link(Port(x[1], "after_scope"), Port(x[2], "input")),
            Link(Port(x[2], "param_name"), Port(x[1], "before_scope"))} : x \in M},
    {Attr(Port(x[2], "param_index"), "push", IndexSymbol(ChildIndex(x[2]))) : x \in M})

\* Mutant of PatternListEdge: every element has precedence 1.
PatternListEdgeFlat(a, b, i) == Edge(a, b, 1)

\* edge statement_scope -> @pattern::local_scope,
\*   "precedence" = (+ 1 (child-index @pattern))
PatternListEdge(a, b, i) == Edge(a, b, 1 + i)

\* [(pattern_list (_) @pattern) (tuple_pattern (_) @pattern)] @list
PatternListRule(files, T) ==
  LET M == UNION {{<<l, p>> : p \in Children(T, l)}
                  : l \in Of(T, "pattern_list") \cup Of(T, "tuple_pattern")}
  IN Stanza(
    UNION {{PatternListEdge(Scoped(files, T, x[1], "local_scope"),
                            Port(x[2], "pattern_before_scope"), ChildIndex(x[2])),
            Link(Port(x[2], "pattern_index"), Port(x[1], "input")),
            Link(Port(x[2], "input"), Port(x[2], "pattern_index"))} : x \in M},
    {Attr(Port(x[2], "pattern_index"), "push", IndexSymbol(ChildIndex(x[2]))) : x \in M})

\* (return_statement (_) @expr) @stmt
ReturnRule(files, T) ==
  Stanza(UNION {{Link(Scoped(files, T, s, "function_returns"), Port(e, "output"))
                   : e \in Children(T, s)}
                : s \in Of(T, "return_statement")},
         {})

\* The classes with a name: <<class, name>>.
Classes(T) ==
  UNION {{<<c, n>> : n \in {n \in Fields(T, c, "name") : T[n].kind = "identifier"}}
         : c \in Of(T, "class_definition")}

\* (class_definition name: (identifier) @name) @class
ClassDefinitionRule(files, T) ==
  Stanza(
    UNION {{Link(Port(x[1], "parent_scope"), Scoped(files, T, x[1], "class_parent_scope")),
            Link(Port(x[1], "parent_scope"), Scoped(files, T, x[1], "local_scope")),
            Link(Port(x[1], "after_scope"), Self(x[2])),
            Link(Self(x[2]), Port(x[1], "call")),
            Link(Self(x[2]), Port(x[1], "dot")),
            Link(Port(x[1], "dot"), Port(x[1], "members")),
            Link(Port(x[1], "call"), Port(x[1], "call_drop")),
            Link(Port(x[1], "call_drop"), Port(x[1], "self_scope")),
            Link(Port(x[1], "self_scope"), Port(x[1], "super_scope")),
            Link(Port(x[1], "self_scope"), Port(x[1], "self_dot")),
            Link(Port(x[1], "self_dot"), Port(x[1], "members")),
            Link(Port(x[1], "members"), Port(x[1], "member_attrs"))}
           : x \in Classes(T)},
    UNION {{Attr(Port(x[1], "call"), "pop", "()"),
            Attr(Port(x[1], "call"), "pop-scope", ""),
            Attr(Port(x[1], "call_drop"), "drop", ""),
            Attr(Port(x[1], "dot"), "pop", "."),
            Attr(Port(x[1], "self_dot"), "pop", "."),
            Attr(Self(x[2]), "pop", T[x[2]].text),
            Attr(Self(x[2]), "definition", ""),
            Attr(Port(x[1], "member_attrs"), "push", "."),
            Attr(Port(x[1], "self_scope"), "endpoint", "")}
           : x \in Classes(T)})

\* (class_definition body: (block (_) @last_stmt .) @body) @class
ClassBodyRule(T) ==
  Stanza(UNION {{Link(Port(c, "members"), Port(LastChild(T, b), "after_scope"))
                   : b \in {b \in Fields(T, c, "body") : T[b].kind = "block" /\ T[b].arity > 0}}
                : c \in Of(T, "class_definition")},
         {})

\* (class_definition superclasses: (argument_list (_) @superclass)) @class
SuperclassRule(T) ==
  Stanza(UNION {UNION {{Link(Port(c, "super_scope"), Port(s, "output")) : s \in Children(T, a)}
                       : a \in {a \in Fields(T, c, "superclasses") :
                                  T[a].kind = "argument_list"}}
                : c \in Of(T, "class_definition")},
         {})

\* (call function: (_) @fn arguments: (argument_list) @args) @call
CallRule(T) ==
  LET M == UNION {{<<c, f, a>> : <<f, a>> \in
                     Fields(T, c, "function")
                     \X {a \in Fields(T, c, "arguments") : T[a].kind = "argument_list"}}
                  : c \in Of(T, "call")}
  IN Stanza(
    UNION {{Link(Port(x[1], "output"), Port(x[1], "output_args")),
            Link(Port(x[1], "output_args"), Port(x[2], "output"))} : x \in M},
    UNION {{Attr(Port(x[1], "output_args"), "push", "()"),
            AttrScope(Port(x[1], "output_args"), "push-scope", Self(x[3]))} : x \in M})

\* The attribute accesses: <<expr, object, name>>.
Attributes(T) ==
  UNION {{<<a, o, n>> : <<o, n>> \in
            Fields(T, a, "object")
            \X {n \in Fields(T, a, "attribute") : T[n].kind = "identifier"}}
         : a \in Of(T, "attribute")}

\* (attribute object: (_) @object attribute: (identifier) @name) @expr
AttributeRule(T) ==
  Stanza(
    UNION {{Link(Port(x[1], "output"), Port(x[3], "output")),
            Link(Port(x[3], "output"), Port(x[1], "output_dot")),
            Link(Port(x[1], "output_dot"), Port(x[2], "output")),
            Link(Port(x[2], "input"), Port(x[1], "input_dot")),
            Link(Port(x[1], "input_dot"), Port(x[3], "input")),
            Link(Port(x[3], "input"), Port(x[1], "input"))}
           : x \in Attributes(T)},
    UNION {{Attr(Port(x[1], "output_dot"), "push", "."),
            Attr(Port(x[1], "input_dot"), "pop", "."),
            Attr(Port(x[3], "input"), "pop", T[x[3]].text),
            Attr(Port(x[3], "output"), "push", T[x[3]].text)}
           : x \in Attributes(T)})

\* (pattern/attribute attribute: (identifier) @name)
PatternAttributeRule(T) ==
  Stanza({},
         {Attr(Port(x[3], "input"), "definition", "")
            : x \in {x \in Attributes(T) : T[x[1]].sup = "pattern"}})

\* (primary_expression/attribute attribute: (identifier) @name)
PrimaryAttributeRule(T) ==
  Stanza({},
         {Attr(Port(x[3], "output"), "reference", "")
            : x \in {x \in Attributes(T) : T[x[1]].sup = "primary_expression"}})

\* (primary_expression/identifier) @id
PrimaryIdentifierRule(files, T) ==
  LET M == {p \in Of(T, "identifier") : T[p].sup = "primary_expression"} IN
  Stanza(
    UNION {{Link(Port(p, "output"), Scoped(files, T, p, "local_scope")),
            Link(Port(p, "output"), Scoped(files, T, p, "class_parent_scope")),
            Link(Scoped(files, T, p, "local_scope"), Port(p, "input")),
            Link(Port(p, "new_bindings"), Port(p, "new_binding_pop"))} : p \in M},
    UNION {{Attr(Port(p, "input"), "pop", T[p].text),
            Attr(Port(p, "output"), "push", T[p].text),
            Attr(Port(p, "output"), "reference", ""),
            Attr(Port(p, "new_binding_pop"), "pop", T[p].text),
            Attr(Port(p, "new_binding_pop"), "definition", "")} : p \in M})

\* Mutant of PatternEdge: the binding has no precedence over the scope chain.
PatternEdgeFlat(a, b) == Edge(a, b, 0)

\* edge @id::local_scope -> @id.input, "precedence" = 1
PatternEdge(a, b) == Edge(a, b, 1)

\* (pattern/identifier) @id
PatternIdentifierRule(files, T) ==
  LET M == {p \in Of(T, "identifier") : T[p].sup = "pattern"} IN
  Stanza(
    UNION {{Link(Port(p, "output"), Scoped(files, T, p, "local_scope")),
            Link(Port(p, "output"), Scoped(files, T, p, "class_parent_scope")),
            PatternEdge(Scoped(files, T, p, "local_scope"), Port(p, "input")),
            Link(Port(p, "new_bindings"), Port(p, "new_binding_pop"))} : p \in M},
    UNION {{Attr(Port(p, "input"), "pop", T[p].text),
            Attr(Port(p, "input"), "definition", ""),
            Attr(Port(p, "output"), "push", T[p].text),
            Attr(Port(p, "new_binding_pop"), "pop", T[p].text),
            Attr(Port(p, "new_binding_pop"), "definition", "")} : p \in M})

(***************************************************************************)
(* Construction and assembly: the graph of a set of files.                 *)
(***************************************************************************)
Stanzas(files, T) ==
  {ModuleRule(files, T), ImportNameRule(T), ImportAliasedNameRule(T), AliasRule(T),
   ImportFromNameRule(T), ImportFromPrefixRule(T), ImportFromRootRule(T),
   WildcardRule(T), LeafNameRule(T),
   RelativeImportRule(files, T), LastStatementRule(T), NextStatementRule(T),
   StatementRule(T), FirstStatementRule(T), FunctionBlockRule(files, T),
   CompoundRule(files, T), MatchRule(T), CaseClauseRule(T), CasePatternRule(T),
   LoopRule(T), AssignmentRule(T),
   FunctionDefinitionRule(files, T), FirstParameterRule(files, T), ParameterRule(T),
   ParametersRule(T), PatternListRule(files, T), ReturnRule(files, T), ClassDefinitionRule(files, T),
   ClassBodyRule(T), SuperclassRule(T), CallRule(T), AttributeRule(T),
   PatternAttributeRule(T), PrimaryAttributeRule(T), PrimaryIdentifierRule(files, T),
   PatternIdentifierRule(files, T)}

\* The attributes of one node, from the attr statements that name it.
NodeAttr(facts, n) ==
  LET F == {f \in facts : f.node = n}
      Has(key) == \E f \in F : f.key = key
      Sym(key) == (CHOOSE f \in F : f.key = key).sym
  IN [op |-> IF Has("push") THEN "push"
             ELSE IF Has("pop") THEN "pop"
             ELSE IF Has("drop") THEN "drop" ELSE "none",
      sym |-> IF Has("push") THEN Sym("push") ELSE IF Has("pop") THEN Sym("pop") ELSE "",
      scope |-> IF Has("push-scope") THEN (CHOOSE f \in F : f.key = "push-scope").scope
                ELSE nil,
      definition |-> Has("definition"),
      reference |-> Has("reference"),
      endpoint |-> Has("endpoint")]

\* Every attr statement the rule set executes on a tree.
Facts(files, T) == UNION {s.attrs : s \in Stanzas(files, T)}

\* An edge to or from an unset scoped variable adds nothing.
Graph(files, T) ==
  LET S == Stanzas(files, T)
      edges == {e \in UNION {s.edges : s \in S} : e.src # nil /\ e.dst # nil}
      facts == Facts(files, T)
      nodes == {Root} \cup {e.src : e \in edges} \cup {e.dst : e \in edges}
               \cup {f.node : f \in facts}
  IN [attr |-> [n \in nodes |-> NodeAttr(facts, n)], edges |-> edges]

\* All files of a program through the rule set at once.
Build(files) == Graph(files, Syntax(files))

\* One file's tree alone, and the graph the rule set builds from it.
FileSyntax(files, i) ==
  LET T == Syntax(files) IN [p \in {q \in DOMAIN T : q[1] = i} |-> T[p]]

FileGraph(files, i) == Graph(files, FileSyntax(files, i))

\* The graph store before any file is built: Root alone.
EmptyGraph == [attr |-> [n \in {Root} |-> NodeAttr({}, n)], edges |-> {}]

\* An edge that leaves a file's subgraph: Root is the only shared node.
CrossFile(e) == e.src = Root \/ e.dst = Root

InnerEdges(g) == {e \in g.edges : ~CrossFile(e)}
CrossEdges(g) == {e \in g.edges : CrossFile(e)}

(***************************************************************************)
(* The graphs that are queried: the hand-built ones and those the rule set *)
(* builds from the programs.                                               *)
(***************************************************************************)
NoProgram == [name |-> "none", opts |-> << >>]

NoHand == CHOOSE h \in HandUnits : TRUE

Units ==
  [fam : {"hand"}, hand : HandUnits, prog : {NoProgram}]
  \cup [fam : {"rules"}, hand : {NoHand}, prog : Programs]

Graphs ==
  [u \in Units |-> IF u.fam = "hand" THEN HandGraph(u.hand) ELSE Build(Source(u.prog))]

(***************************************************************************)
(* Editor webview (src/vscode-extension): the panel state, the request     *)
(* bookkeeping of the webview context and the simulated ingestion.         *)
(***************************************************************************)
VARIABLES
  pendingRequests, \* per webviewContextValue call: the ids it holds a deferred for
  listeners,       \* per webviewContextValue call: its (key, callback) pairs
  deferreds,       \* id -> the deferred made for it: promise state, settle calls
  posted,          \* the requests handed to postMessage and not yet answered
  thrown,          \* (listener, message) pairs whose onMessage call threw
  received,        \* (listener, key, callback) event callbacks that ran
  panelState,      \* the React state of WithWebviewContext
  origin,          \* the panel state the panel started from
  called,          \* the latest controller call: name, arguments, prevState
  generated,       \* how many uuids v4() has produced
  progress,        \* simulateIngestionProcess: let progress
  intervalId,      \* its timer: "none", "set" or "cleared"
  ticks,           \* timer callbacks run so far
  callbacks,       \* every onUpdateProgress / onComplete call, with its tick
  updates,         \* setPanelState updaters queued by timer callbacks
  isLoading        \* IngestionScreen: useState(false)

webviewVars == <<pendingRequests, listeners, deferreds, posted, thrown, received>>

panelVars == <<panelState, origin, called, generated>>

ingestionVars == <<progress, intervalId, ticks, callbacks, updates, isLoading>>

view == <<webviewVars, panelVars, ingestionVars>>

\* JavaScript's undefined, where a string is expected.
undefined == "undefined"

\* src/vscode-extension/src/dummy.ts; Date.now() at load is Loaded.
Loaded == 1002

initalPanelState ==
  [chat |->
    [conversations |->
       <<[id |-> "conv1",
          header |-> [title |-> "Conversation Title", isTitleMessage |-> FALSE,
                      codicon |-> "magnet"],
          content |->
            [type |-> "messageExchange",
             messages |->
               <<[author |-> "bot",
                  content |-> "Please tell me more about your issue. How about it."],
                 [author |-> "user", content |-> "Hello, how can I help?"],
                 [author |-> "bot", content |-> "Please tell me more about your issue."]>>,
             state |-> [type |-> "userCanReply",
                        responsePlaceholder |-> "Type your response..."]],
          createdAt |-> Loaded - 1002],
         [id |-> "conv2",
          header |-> [title |-> "Instruction Refinement", isTitleMessage |-> TRUE,
                      codicon |-> "table"],
          content |->
            [type |-> "messageExchange",
             messages |->
               <<[author |-> "user", content |-> "Hello, how can I help?"],
                 [author |-> "bot", content |-> "Please tell me more about your issue."]>>,
             state |-> [type |-> "userCanReply",
                        responsePlaceholder |-> "Type your response..."]],
          createdAt |-> Loaded - 1000]>>,
     selectedConversationId |-> "conv1",
     hasOpenAIApiKey |-> TRUE,
     surfacePromptForOpenAIPlus |-> FALSE,
     error |->
       [title |-> "Network Error",
        message |-> "Unable to connect to the server. Please check your internet connection and try again."]]]

NoCall == [name |-> "none"]

\* Nothing of the webview has run: the module constants exist, nothing is
\* rendered, requested or started.
Unmounted ==
  /\ pendingRequests = << >>
  /\ listeners = << >>
  /\ deferreds = << >>
  /\ posted = {}
  /\ thrown = {}
  /\ received = {}
  /\ panelState = initalPanelState
  /\ origin = initalPanelState
  /\ called = NoCall
  /\ generated = 0
  /\ progress = 0
  /\ intervalId = "none"
  /\ ticks = 0
  /\ callbacks = << >>
  /\ updates = << >>
  /\ isLoading = FALSE

(***************************************************************************)
(* Stack-path resolver (specification, section 4.6).                       *)
(***************************************************************************)
VARIABLES
  unit,      \* which graph is queried: a hand-built one or a program's
  graph,     \* the assembled graph store: node attributes and edges
  pc,        \* "idle", "run", "done", or "unbounded"
  frames,    \* the depth-first path: one frame per node from the reference
  visited,   \* (node, remaining stack) states already entered
  hits,      \* every definition reached with an empty stack so far
  log,       \* per finished precedence level: did it yield a definition
  result,    \* the definition set resolve returns
  earlier,   \* the queries answered before the graph was last rebuilt
  built,     \* the files whose per-file construction has completed
  linked,    \* the files whose cross-file edges have been added
  last       \* the latest assembly step: what it was and the edges it added

store == <<unit, graph, pc, frames, visited, hits, log, result, earlier,
           built, linked, last>>

vars == <<store, view>>

G == graph

Out(g, n) == {e \in g.edges : e.src = n}

\* Mutant of Viable: a pop is let through whatever symbol is on top.
ViableAnySymbol(g, e, st) ==
  LET a == g.attr[e.dst] IN
  IF a.op = "pop" THEN st # << >> \/ e.src = Root ELSE TRUE

\* (a) an edge's pop symbol must equal the symbol on top of the stack; a pop
\* on an empty stack is permitted only at Root.
Viable(g, e, st) ==
  LET a == g.attr[e.dst] IN
  IF a.op = "pop"
    THEN IF st = << >> THEN e.src = Root ELSE Head(st).sym = a.sym
    ELSE TRUE

\* Mutant of DropScope: a Drop clears every scope payload on the stack.
DropAllScopes(st) == [i \in DOMAIN st |-> [st[i] EXCEPT !.scope = nil]]

\* (d) Drop discards the most recently pushed scope payload, not symbols.
DropScope(st) ==
  LET with == {i \in DOMAIN st : st[i].scope # nil} IN
  IF with = {} THEN st ELSE [st EXCEPT ![Min(with)].scope = nil]

\* The stack after traversing edge e.
Apply(g, e, st) ==
  LET a == g.attr[e.dst] IN
  CASE a.op = "push" -> <<[sym |-> a.sym, scope |-> a.scope]>> \o st
    [] a.op = "pop" -> IF st = << >> THEN st ELSE Tail(st)
    [] a.op = "drop" -> DropScope(st)
    [] OTHER -> st

\* Mutant of Candidates: an Endpoint's outgoing edges are followed.
CandidatesPastEndpoint(g, n, st) == {e \in {x \in g.edges : x.src = n} : Viable(g, e, st)}

\* (c) traversal stops at an Endpoint even if it has outgoing edges.
Candidates(g, n, st) ==
  IF g.attr[n].endpoint THEN {} ELSE {e \in Out(g, n) : Viable(g, e, st)}

\* (b) edges are tried in descending precedence order.
FirstLevel(cands) == Max({e.precedence : e \in cands})

\* A definition is found when it is reached with nothing left to match.
Found(g, n, st) == IF g.attr[n].definition /\ st = << >> THEN {n} ELSE {}

Frame(g, n, st) ==
  LET cands == Candidates(g, n, st)
      lv == IF cands = {} THEN -1 ELSE FirstLevel(cands)
  IN [node |-> n, stack |-> st, level |-> lv,
      pending |-> {e \in cands : e.precedence = lv},
      found |-> {}, self |-> Found(g, n, st)]

Top == frames[Len(frames)]

LowerLevels(f) ==
  {e.precedence : e \in Candidates(G, f.node, f.stack)} \cap (-1 .. f.level - 1)

\* Mutant of MayLower: lower levels are tried even after a level yielded.
MayLowerAlways(f) ==
  ({e.precedence : e \in Candidates(G, f.node, f.stack)} \cap (-1 .. f.level - 1)) # {}

\* (b) lower-precedence siblings are explored only if the level yielded nothing.
MayLower(f) == f.found = {} /\ LowerLevels(f) # {}

\* The edges of the current level still to try after e was tried.
Remaining(f, e) == f.pending \ {e}

\* Mutant of Merge: the first sibling that yields wins.
MergeFirst(above, below) == IF above # {} THEN above ELSE below

\* Equal-precedence siblings all contribute: what a finished frame found is
\* added to what its siblings found.
Merge(above, below) == above \cup below

References(g) == {n \in DOMAIN g.attr : g.attr[n].reference}

NoStep == [step |-> "none", file |-> 0, edges |-> {}]

Files == IF unit.fam = "rules" THEN DOMAIN Source(unit.prog) ELSE {}

Init ==
  /\ unit \in Units
  /\ graph = IF unit.fam = "hand" THEN Graphs[unit] ELSE EmptyGraph
  /\ pc = IF unit.fam = "hand" THEN "idle" ELSE "assemble"
  /\ built = {}
  /\ linked = {}
  /\ last = NoStep
  /\ frames = << >>
  /\ visited = {}
  /\ hits = {}
  /\ log = {}
  /\ result = {}
  /\ earlier = << >>
  /\ Unmounted

\* Most rebuilds of the graph that are followed.
\* Per-file construction: file i's nodes and the edges among them.
ConstructFile(i) ==
  /\ pc = "assemble"
  /\ i \in Files \ built
  /\ LET fg == FileGraph(Source(unit.prog), i) IN
       /\ graph' = [attr |-> fg.attr @@ graph.attr, edges |-> graph.edges \cup InnerEdges(fg)]
       /\ last' = [step |-> "construct", file |-> i, edges |-> InnerEdges(fg)]
  /\ built' = built \cup {i}
  /\ UNCHANGED <<unit, pc, frames, visited, hits, log, result, earlier, linked>>
  /\ UNCHANGED view

\* Assembly: a built file's edges to and from Root are appended.
LinkFile(i) ==
  /\ pc = "assemble"
  /\ i \in built \ linked
  /\ LET fg == FileGraph(Source(unit.prog), i) IN
       /\ graph' = [graph EXCEPT !.edges = @ \cup CrossEdges(fg)]
       /\ last' = [step |-> "link", file |-> i, edges |-> CrossEdges(fg)]
  /\ linked' = linked \cup {i}
  /\ UNCHANGED <<unit, pc, frames, visited, hits, log, result, earlier, built>>
  /\ UNCHANGED view

\* Every file is built and linked: the graph is published for resolution.
Publish ==
  /\ pc = "assemble"
  /\ linked = Files
  /\ pc' = "idle"
  /\ last' = NoStep
  /\ UNCHANGED <<unit, graph, frames, visited, hits, log, result, earlier, built, linked>>
  /\ UNCHANGED view

MaxRebuilds == 1

\* The references that are queried: any one at first, and after a rebuild
\* the unchanged reference again.
Queries(g) ==
  IF earlier = << >> THEN References(g) ELSE {earlier[Len(earlier)].query}

\* resolve(reference): the query starts at the reference, which pushes its symbol.
Resolve ==
  /\ pc = "idle"
  /\ \E r \in Queries(G) :
       LET st == <<[sym |-> G.attr[r].sym, scope |-> G.attr[r].scope]>> IN
       /\ frames' = <<Frame(G, r, st)>>
       /\ visited' = {<<r, st>>}
  /\ pc' = "run"
  /\ UNCHANGED <<unit, graph, hits, log, result, earlier, built, linked, last>>
  /\ UNCHANGED view

\* Follow one pending edge of the current level into an unvisited state.
Descend ==
  /\ pc = "run"
  /\ \E e \in Top.pending :
       LET st == Apply(G, e, Top.stack) IN
       /\ Len(st) <= MaxStack
       /\ <<e.dst, st>> \notin visited
       /\ frames' = Append([frames EXCEPT ![Len(frames)].pending = Remaining(Top, e)],
                           Frame(G, e.dst, st))
       /\ visited' = visited \cup {<<e.dst, st>>}
       /\ hits' = hits \cup Found(G, e.dst, st)
  /\ UNCHANGED <<unit, graph, pc, log, result, earlier, built, linked, last>>
  /\ UNCHANGED view

\* Visited-state pruning: an edge into a state already entered is skipped.
Prune ==
  /\ pc = "run"
  /\ \E e \in Top.pending :
       LET st == Apply(G, e, Top.stack) IN
       /\ Len(st) <= MaxStack
       /\ <<e.dst, st>> \in visited
       /\ frames' = [frames EXCEPT ![Len(frames)].pending = Remaining(Top, e)]
  /\ UNCHANGED <<unit, graph, pc, visited, hits, log, result, earlier, built, linked, last>>
  /\ UNCHANGED view

\* The stack outgrows every bound: the (node, stack) key never repeats.
Unbounded ==
  /\ pc = "run"
  /\ \E e \in Top.pending : Len(Apply(G, e, Top.stack)) > MaxStack
  /\ pc' = "unbounded"
  /\ UNCHANGED <<unit, graph, frames, visited, hits, log, result, earlier, built, linked, last>>
  /\ UNCHANGED view

LogEntry(f) ==
  [node |-> f.node, stack |-> f.stack, level |-> f.level, yield |-> f.found # {}]

\* The current level is exhausted and yielded nothing: try the next lower one.
Lower ==
  /\ pc = "run"
  /\ Top.pending = {}
  /\ MayLower(Top)
  /\ LET lv == Max(LowerLevels(Top)) IN
     frames' = [frames EXCEPT ![Len(frames)].level = lv,
                              ![Len(frames)].pending =
                                 {e \in Candidates(G, Top.node, Top.stack) :
                                    e.precedence = lv}]
  /\ log' = log \cup {LogEntry(Top)}
  /\ UNCHANGED <<unit, graph, pc, visited, hits, result, earlier, built, linked, last>>
  /\ UNCHANGED view

\* The frame is finished: hand what it found to the frame above.
Return ==
  /\ pc = "run"
  /\ Len(frames) > 1
  /\ Top.pending = {}
  /\ ~MayLower(Top)
  /\ LET k == Len(frames) - 1 IN
     frames' = [SubSeq(frames, 1, k) EXCEPT
                  ![k].found = Merge(frames[k].found, Top.found \cup Top.self)]
  /\ log' = log \cup {LogEntry(Top)}
  /\ UNCHANGED <<unit, graph, pc, visited, hits, result, earlier, built, linked, last>>
  /\ UNCHANGED view

\* The reference's own frame is finished: resolve returns.
Finish ==
  /\ pc = "run"
  /\ Len(frames) = 1
  /\ Top.pending = {}
  /\ ~MayLower(Top)
  /\ result' = Top.found \cup Top.self
  /\ log' = log \cup {LogEntry(Top)}
  /\ pc' = "done"
  /\ UNCHANGED <<unit, graph, frames, visited, hits, earlier, built, linked, last>>
  /\ UNCHANGED view

\* The graph of the unchanged files is built again, and the resolver is
\* ready for the same reference.
Reconstruct ==
  /\ pc = "done"
  /\ Len(earlier) < MaxRebuilds
  /\ earlier' = Append(earlier, [query |-> frames[1].node, result |-> result])
  /\ graph' = Graphs[unit]
  /\ pc' = "idle"
  /\ frames' = << >>
  /\ visited' = {}
  /\ hits' = {}
  /\ log' = {}
  /\ result' = {}
  /\ UNCHANGED <<unit, built, linked, last>>
  /\ UNCHANGED view

Next ==
  \/ \E i \in Files : ConstructFile(i)
  \/ \E i \in Files : LinkFile(i)
  \/ Publish
  \/ Resolve \/ Descend \/ Prune \/ Unbounded \/ Lower \/ Return \/ Finish \/ Reconstruct

Spec == Init /\ [][Next]_vars

(***************************************************************************)
(* Properties of the resolver.                                             *)
(***************************************************************************)
Path == [i \in DOMAIN frames |-> frames[i].node]

Query == frames[1].node

Syms(st) == [i \in DOMAIN st |-> st[i].sym]

\* Replays the pushes and pops of path[i..] on the symbols pushed so far.
\* atRoot: whether a pop on the empty stack is let through when the edge
\* leaves Root.
RECURSIVE Balanced(_, _, _, _, _)
Balanced(g, path, i, syms, atRoot) ==
  IF i > Len(path) THEN TRUE
  ELSE LET a == g.attr[path[i]] IN
    CASE a.op = "push" -> Balanced(g, path, i + 1, <<a.sym>> \o syms, atRoot)
      [] a.op = "pop" ->
           IF syms = << >>
             THEN atRoot /\ i > 1 /\ path[i - 1] = Root
                  /\ Balanced(g, path, i + 1, syms, atRoot)
             ELSE Head(syms) = a.sym /\ Balanced(g, path, i + 1, Tail(syms), atRoot)
      [] OTHER -> Balanced(g, path, i + 1, syms, atRoot)

Accepting == pc = "run" /\ Top.self # {}

\* Nodes reachable from S along the edges E, whatever the stack.
RECURSIVE Closure(_, _)
Closure(E, S) ==
  LET T == S \cup {e.dst : e \in {e \in E : e.src \in S}} IN
  IF T = S THEN S ELSE Closure(E, T)

\* (node, stack) states reachable from S by viable edges, whatever their
\* precedence and whatever order they are tried in.
RECURSIVE StateClosure(_, _)
StateClosure(g, S) ==
  LET T == S \cup UNION {{<<e.dst, Apply(g, e, v[2])>> : e \in Candidates(g, v[1], v[2])}
                          : v \in S}
      U == {v \in T : Len(v[2]) <= MaxStack}
  IN IF U = S THEN S ELSE StateClosure(g, U)

\* C1 as claimed: every path resolve accepts is balanced, each pop matching
\* the symbol pushed last and none taken on an empty stack, so that no
\* definition is returned through an edge whose pop was never pushed.
C1_EveryPopWasPushed ==
  Accepting => Balanced(G, Path, 1, << >>, FALSE)

\* C1 as amended: every path resolve accepts is balanced, each pop matching
\* the symbol pushed last, except that an edge leaving Root may be taken on
\* an empty stack; a definition behind any other unbalanced edge is never
\* returned.
C1_BalancedExceptAtRoot ==
  Accepting => Balanced(G, Path, 1, << >>, TRUE)

\* C1 witness: hD1 was accepted, and hD2, whose pop "b" was never pushed and
\* which is only behind unbalanced edges (from hM and from hD1), was not.
C1_Witness ==
  /\ pc = "done"
  /\ unit.fam = "hand" /\ unit.hand.d1 = "a" /\ unit.hand.d2 = "b" /\ unit.hand.m = "scope"
  /\ hD1 \in result /\ hD2 \notin result
  /\ <<hM, <<[sym |-> "a", scope |-> nil]>>>> \in visited

VisitsOf(n) == {v \in visited : v[1] = n}

SamePrecedence(g) == \A e1 \in g.edges, e2 \in g.edges : e1.precedence = e2.precedence

DefinitionsIn(g, S) == {v[1] : v \in {v \in S : g.attr[v[1]].definition /\ v[2] = << >>}}

\* C3: every edge of a precedence level that was tried is explored or leads
\* to a state already entered, no definition found is dropped from the
\* result, and when all edges tie the result is every definition a viable
\* path reaches, whichever sibling was explored first.
C3_TiesAllContribute ==
  /\ \A r \in log :
        \A e \in Candidates(G, r.node, r.stack) :
          e.precedence = r.level =>
            \/ <<e.dst, Apply(G, e, r.stack)>> \in visited
            \/ Len(Apply(G, e, r.stack)) > MaxStack
  /\ pc = "done" => result = hits
  /\ (pc = "done" /\ SamePrecedence(G)) =>
       result = DefinitionsIn(G, StateClosure(G, {<<Query, frames[1].stack>>}))

\* C3 witness: the edges hS -> hD1 and hS -> hM tie, hM leads to hD2 and to
\* the state at hD1 that its sibling shares, and both definitions are
\* returned.
C3_Witness ==
  /\ pc = "done"
  /\ unit.fam = "hand" /\ unit.hand.q1 = unit.hand.qm /\ unit.hand.m = "scope"
  /\ hD1 \in result /\ hD2 \in result

\* Ancestor frame i and the top frame are at the same node, the top one with
\* a longer stack that i's stack was never popped out of: the segment of the
\* path between them repeats forever.
IsSuffix(s, t) ==
  Len(s) <= Len(t) /\ SubSeq(t, Len(t) - Len(s) + 1, Len(t)) = s

Pumping ==
  \E i \in DOMAIN frames, j \in DOMAIN frames :
    /\ i < j
    /\ frames[i].node = frames[j].node
    /\ Len(frames[i].stack) < Len(frames[j].stack)
    /\ \A k \in i .. Len(frames) : IsSuffix(frames[i].stack, frames[k].stack)

\* C4 as claimed: resolve terminates on every finite graph, cycles included:
\* it never enters a traversal whose stack grows without bound.
C4_Terminates == ~(pc = "unbounded" /\ Pumping)

\* C5: no path continues past an Endpoint, and every returned definition is
\* reachable without leaving an Endpoint.
C5_StopsAtEndpoint ==
  /\ \A i \in DOMAIN frames : i < Len(frames) => ~G.attr[frames[i].node].endpoint
  /\ pc = "done" =>
       result \subseteq Closure({e \in G.edges : ~G.attr[e.src].endpoint}, {Query})

\* C5 witness: the Endpoint hM was reached with "a" on the stack, hD2 pops
\* "a" right behind it, and hD2 is not returned.
C5_Witness ==
  /\ pc = "done"
  /\ unit.fam = "hand" /\ unit.hand.m = "endpoint" /\ unit.hand.d2 = "a" /\ unit.hand.d1 = "b"
  /\ <<hM, <<[sym |-> "a", scope |-> nil]>>>> \in visited
  /\ hD2 \notin result

Payloads(st) == {i \in DOMAIN st : st[i].scope # nil}

\* C6: a Drop removes the scope payload pushed last and nothing else; any
\* other node leaves the stack alone, pushes one entry or pops one entry.
C6_DropEffect ==
  \A k \in DOMAIN frames :
    k > 1 =>
      LET p == frames[k - 1].stack
          c == frames[k].stack
      IN IF G.attr[frames[k].node].op = "drop"
           THEN /\ Syms(c) = Syms(p)
                /\ IF Payloads(p) = {} THEN c = p
                   ELSE \E i \in Payloads(p) :
                          /\ \A j \in Payloads(p) : i <= j
                          /\ c = [p EXCEPT ![i].scope = nil]
           ELSE \/ c = p
                \/ Len(c) = Len(p) + 1 /\ Tail(c) = p
                \/ p # << >> /\ c = Tail(p)

\* C6 witness: a Drop is traversed with two scope payloads on the stack.
C6_Witness ==
  \E k \in DOMAIN frames :
    /\ k > 1
    /\ G.attr[frames[k].node].op = "drop"
    /\ Cardinality(Payloads(frames[k - 1].stack)) = 2
    /\ Cardinality(Payloads(frames[k].stack)) = 1

(***************************************************************************)
(* Properties of the graphs the rule set builds.                           *)
(***************************************************************************)
Rules == unit.fam = "rules"

Tree == Syntax(Source(unit.prog))

IsPrefix(s, t) == Len(s) <= Len(t) /\ SubSeq(t, 1, Len(s)) = s

\* The definitions and references of a name under the syntax node s; the
\* new_binding_pop nodes, which only a case clause connects, are left aside.
DefinitionsOf(name, s) ==
  {n \in DOMAIN G.attr :
     /\ G.attr[n].definition /\ G.attr[n].sym = name
     /\ IsPrefix(s, n[1]) /\ n[2] # "new_binding_pop"}

ReferencesOf(name, s) ==
  {n \in DOMAIN G.attr : G.attr[n].reference /\ G.attr[n].sym = name /\ IsPrefix(s, n[1])}

\* pkg/__init__.py is file 1 and pkg/mod.py is file 2; the import is the
\* first statement of pkg/mod.py and the reference its second.
Package == Rules /\ unit.prog.name = "package"

C7_Query == pc = "done" /\ Package /\ Query \in ReferencesOf("VALUE", <<2, 2>>)

\* C7 as claimed: the reference to VALUE in pkg/mod.py resolves to exactly
\* one definition, the VALUE of pkg/__init__.py, and to no node of pkg/mod.py.
C7_OnlyInitValue ==
  C7_Query =>
    /\ Cardinality(result) = 1
    /\ result = DefinitionsOf("VALUE", <<1>>)

\* C7 as amended: the reference to VALUE in pkg/mod.py resolves to exactly
\* two definitions: the VALUE of pkg/__init__.py, and the VALUE binding that
\* the import statement of pkg/mod.py introduces.
C7_InitValueAndImportBinding ==
  C7_Query =>
    /\ Cardinality(DefinitionsOf("VALUE", <<1>>)) = 1
    /\ Cardinality(DefinitionsOf("VALUE", <<2, 1>>)) = 1
    /\ result = DefinitionsOf("VALUE", <<1>>) \cup DefinitionsOf("VALUE", <<2, 1>>)

\* C7 witness: the query is answered, through Root, with the definition of
\* the other file among the results.
C7_Witness ==
  /\ C7_Query
  /\ \E v \in visited : v[1] = Root
  /\ \E d \in result : d[1][1] = 1

\* Statement j follows statement i in a block, the reference q is in
\* statement i and the definition d in statement j.
Later(T, b, i, j, q, d) ==
  i < j /\ IsPrefix(Append(b, i), q[1]) /\ IsPrefix(Append(b, j), d[1])

\* The block b is a loop's body or lies inside one.
InLoop(T, b) ==
  \E k \in 1 .. Len(b) : T[SubSeq(b, 1, k)].kind \in {"for_statement", "while_statement"}

\* The reference q lies in the body of a function that is statement s or
\* is nested in it.
InFunction(T, s, q) ==
  \E k \in Len(s) .. Len(q[1]) : T[SubSeq(q[1], 1, k)].kind = "function_definition"

ThroughRoot == \E k \in DOMAIN frames : frames[k].node = Root

\* C8 as claimed: in every block, loop bodies included, a reference in
\* statement i never resolves to a definition introduced by a statement
\* j > i of the same block.
C8_SequentialVisibility ==
  (Accepting /\ Rules) =>
    LET T == Tree IN
    \A b \in Blocks(T) : \A i \in 1 .. T[b].arity, j \in 1 .. T[b].arity :
      ~Later(T, b, i, j, Query, Top.node)

\* C8 as amended: in every block that is not inside a loop, a reference in
\* statement i that is not inside a function body never resolves, along a
\* path that stays clear of Root, to a definition introduced by a statement
\* j > i of the same block.
C8_SequentialOutsideLoops ==
  (Accepting /\ Rules) =>
    LET T == Tree IN
    \A b \in Blocks(T) : \A i \in 1 .. T[b].arity, j \in 1 .. T[b].arity :
      Later(T, b, i, j, Query, Top.node) =>
        InLoop(T, b) \/ InFunction(T, Append(b, i), Query) \/ ThroughRoot

\* C8 witness: a reference in an if body, outside any loop and function,
\* with a definition of its name in a later statement of that body, has
\* been resolved to an earlier definition and not to the later one.
C8_Witness ==
  /\ pc = "done" /\ Rules /\ unit.prog.name = "block"
  /\ result # {}
  /\ LET T == Tree IN
     \E b \in Of(T, "block") : \E i \in 1 .. T[b].arity, j \in 1 .. T[b].arity :
       /\ T[Parent(b)].kind = "if_statement"
       /\ ~InLoop(T, b)
       /\ \E d \in DefinitionsOf("x", Append(b, j)) :
            Later(T, b, i, j, Query, d) /\ d \notin result

\* x = 1, then a nested block with x = 2 and a reference to x, then a
\* reference to x: the statements 1, 2 and 3 of the module.
Shadowing(nest) ==
  Rules /\ unit.prog = [name |-> "block", opts |-> <<"def", nest, "def", "ref", "ref">>]

Outer == DefinitionsOf("x", <<1, 1>>)
Inner == DefinitionsOf("x", <<1, 2>>)
InnerQuery == Query \in ReferencesOf("x", <<1, 2>>)
AfterQuery == Query \in ReferencesOf("x", <<1, 3>>)

\* C9 as claimed: the reference inside the nested block resolves to the
\* inner definition only, and the reference after the block to the outer
\* definition only.
C9_InnerThenOuterOnly ==
  \A nest \in NestKinds :
    (pc = "done" /\ Shadowing(nest)) =>
      /\ InnerQuery => result = Inner
      /\ AfterQuery => result = Outer

\* C9 as amended: the reference inside the nested block resolves to the
\* inner definition only, or in a class body to the inner and the outer
\* one; the reference after the block resolves to the outer definition only
\* when the block is a function or class body, and to both the inner and
\* the outer one when it is the body of an if, else, for or while.
C9_ShadowingByBlockKind ==
  \A nest \in NestKinds :
    (pc = "done" /\ Shadowing(nest)) =>
      /\ Cardinality(Inner) = 1 /\ Cardinality(Outer) = 1
      /\ InnerQuery =>
           result = IF nest = "class" THEN Inner \cup Outer ELSE Inner
      /\ AfterQuery =>
           result = IF nest \in {"function", "class"} THEN Outer ELSE Inner \cup Outer

\* C9 witness: after an if body that rebinds x, the reference to x has been
\* resolved to both definitions.
C9_Witness ==
  /\ pc = "done" /\ Shadowing("if") /\ AfterQuery
  /\ result = Inner \cup Outer
  /\ Inner # {} /\ Outer # {} /\ Inner # Outer

\* class C with member m, method f(self), and g defined in f's body with
\* the bare reference m; m is bound nowhere else.
Member == Rules /\ unit.prog.name = "member"

\* C10 as claimed: the bare reference inside g to a name bound only as a
\* member of C resolves to the empty set.
C10_ClosureNonCapture ==
  (pc = "done" /\ Member /\ Query \in ReferencesOf("m", <<1>>)) => result = {}

\* foo.py is file 1, a.py (import foo; foo.baz) file 2 and b.py
\* (import foo as bar; bar.baz) file 3.
Alias == Rules /\ unit.prog.name = "alias"

\* C11: baz in bar.baz after "import foo as bar" and baz in foo.baz after
\* "import foo" resolve to the same set, the definitions of baz in foo.py;
\* the names foo and bar resolve to the same set too, once the binding the
\* import statement makes in its own file is set aside.
C11_AliasRoundTrip ==
  (pc = "done" /\ Alias) =>
    /\ Query \in ReferencesOf("baz", <<2>>) \cup ReferencesOf("baz", <<3>>) =>
         result = DefinitionsOf("baz", <<1>>)
    /\ Query \in ReferencesOf("foo", <<2, 2>>) =>
         {d \in result : d[1][1] # 2} = DefinitionsOf("foo", <<1>>)
    /\ Query \in ReferencesOf("bar", <<3, 2>>) =>
         {d \in result : d[1][1] # 3} = DefinitionsOf("foo", <<1>>)

\* C11 witness: baz in bar.baz has been resolved, through the alias, to the
\* definition in foo.py.
C11_Witness ==
  /\ pc = "done" /\ Alias
  /\ Query \in ReferencesOf("baz", <<3>>)
  /\ result # {} /\ result = DefinitionsOf("baz", <<1>>)
  /\ \E v \in visited : v[1] \in DefinitionsOf("bar", <<3, 1>>)

C12_SameGraph == pc = "done" => graph = Graphs[unit]

\* The graph that the completed steps account for, whatever their order.
RECURSIVE Assembled(_, _, _)
Assembled(files, B, L) ==
  IF B = {} THEN EmptyGraph
  ELSE LET i == CHOOSE j \in B : TRUE
           fg == FileGraph(files, i)
           rest == Assembled(files, B \ {i}, L)
       IN [attr |-> fg.attr @@ rest.attr,
           edges |-> rest.edges \cup InnerEdges(fg)
                     \cup (IF i \in L THEN CrossEdges(fg) ELSE {})]

OfFile(n, i) == n # Root /\ n[1][1] = i

\* The steps leave each other's work alone: the graph is the union of what
\* the completed steps added, a construction step adds no edge at Root and
\* only nodes of its file, and the published graph is that of one build of
\* all files.
AppendOnly ==
  /\ pc = "assemble" => graph = Assembled(Source(unit.prog), built, linked)
  /\ last.step = "construct" =>
       \A e \in last.edges : OfFile(e.src, last.file) /\ OfFile(e.dst, last.file)
  /\ (Rules /\ pc = "idle" /\ earlier = << >>) => graph = Graphs[unit]

\* The syntax node p lies inside an import statement.
InImport(p) ==
  \E k \in 1 .. Len(p) :
    Tree[SubSeq(p, 1, k)].kind \in {"import_statement", "import_from_statement"}

EntryNodes(i) == {Port(<<i>>, "file_def"), Port(<<i>>, "file_ref")}

FactsOn(n) ==
  {f \in Facts(Source(unit.prog), FileSyntax(Source(unit.prog), last.file)) : f.node = n}

Symbols(n, key) == {f.sym : f \in {f \in FactsOn(n) : f.key = key}}

Marked(key) == {n \in DOMAIN graph.attr : n # Root /\ \E f \in FactsOn(n) : f.key = key}

\* C14 as claimed: in the graph the rule set builds for a file, whatever
\* its path, every node marked definition has exactly one pop symbol, every
\* node marked reference has exactly one push symbol, and each of them has
\* a source span.
C14_OneSymbolAndSpan ==
  last.step = "construct" =>
    /\ \A n \in Marked("definition") :
         Cardinality(Symbols(n, "pop")) = 1 /\ n \notin Marked("no_span")
    /\ \A n \in Marked("reference") :
         Cardinality(Symbols(n, "push")) = 1 /\ n \notin Marked("no_span")

\* m.py is file 1 and main.py file 2; the reference to n is the third
\* statement of main.py.
Wildcard == Rules /\ unit.prog.name = "wildcard"

WildcardQuery ==
  pc = "done" /\ Wildcard /\ unit.prog.opts[2] = "yes" /\ Query \in ReferencesOf("n", <<2, 3>>)

\* C15 as claimed: with n bound explicitly and from m import * in the same
\* module, in either order, and n defined in m, a later reference to n
\* resolves to the explicit binding and not to m's n.
C15_ExplicitWins ==
  WildcardQuery => result = DefinitionsOf("n", <<2>>)

\* C15, amended: the later of the two statements wins.  The wildcard's edge
\* has precedence 1, as the edge to an explicit definition has: after
\* from m import *; n = 1 the reference resolves to the explicit binding
\* only, and after n = 1; from m import * to m's n only.
C15_LaterStatementWins ==
  WildcardQuery =>
    result = IF unit.prog.opts[1] = "wildcard-first" THEN DefinitionsOf("n", <<2>>)
             ELSE DefinitionsOf("n", <<1>>)

\* C15 witness: n = 1; from m import *; n has been resolved, through the
\* wildcard's reference to m, to the n of m.py.
C15_Witness ==
  /\ WildcardQuery /\ unit.prog.opts[1] = "explicit-first"
  /\ result # {} /\ result = DefinitionsOf("n", <<1>>)
  /\ \E v \in visited : v[1][2] = "ref_dot" /\ Tree[v[1][1]].kind = "wildcard_import"

\* The match statement is the second statement of the file: its clauses
\* are its second and third children, each with its pattern and its body;
\* the statement after the match is the third of the file.
MatchProgram == Rules /\ unit.prog.name = "match"

\* The definition nodes a case clause's pattern binds the name with.
CaseBindings(name, clause) ==
  {n \in DOMAIN G.attr :
     /\ G.attr[n].definition /\ G.attr[n].sym = name
     /\ IsPrefix(Append(clause, 1), n[1]) /\ n[2] = "new_binding_pop"}

InBody(clause) == Query \in ReferencesOf("a", Append(clause, 2))

\* Each case body's scope chain continues at its clause and from there at
\* the match statement's own before-scope: the clause's scope has no edge
\* to a node outside the clause but that one.
CaseBodyChain ==
  MatchProgram =>
    \A c \in {<<1, 2, 2>>, <<1, 2, 3>>} :
      /\ Link(Port(Append(c, 2), "before_scope"), Port(c, "before_scope")) \in G.edges
      /\ Link(Port(c, "before_scope"), Port(<<1, 2>>, "before_scope")) \in G.edges
      /\ \A e \in G.edges :
           e.src = Port(c, "before_scope") =>
             e.dst = Port(<<1, 2>>, "before_scope") \/ IsPrefix(c, e.dst[1])

\* C16 as claimed: a reference in another case clause, or in a statement
\* after the match statement, never resolves to a case pattern's binding;
\* the reference in the clause's own body does, and each case body's scope
\* chain starts from the match statement's before-scope.
C16_CaseBindingsStayInBody ==
  /\ (pc = "done" /\ MatchProgram) =>
       /\ InBody(<<1, 2, 2>>) => CaseBindings("a", <<1, 2, 2>>) \subseteq result
       /\ InBody(<<1, 2, 3>>) => result \cap CaseBindings("a", <<1, 2, 2>>) = {}
       /\ Query \in ReferencesOf("a", <<1, 3>>) =>
            result \cap CaseBindings("a", <<1, 2, 2>>) = {}
  /\ (pc = "done" /\ MatchProgram) => CaseBodyChain

\* C16, amended: a reference in another case clause never resolves to a
\* case pattern's binding, but a reference in a statement after the match
\* statement does: the match statement's after-scope leads into the end of
\* every clause's body.
C16_CaseBindingsReachLaterStatements ==
  (pc = "done" /\ MatchProgram) =>
    /\ InBody(<<1, 2, 2>>) => CaseBindings("a", <<1, 2, 2>>) \subseteq result
    /\ InBody(<<1, 2, 3>>) => result \cap CaseBindings("a", <<1, 2, 2>>) = {}
    /\ Query \in ReferencesOf("a", <<1, 3>>) =>
         CaseBindings("a", <<1, 2, 2>>) \subseteq result
    /\ CaseBodyChain

\* C16 witness: the reference to a in the body of case b has been resolved
\* without reaching the binding that case a makes, which exists.
C16_Witness ==
  /\ pc = "done" /\ MatchProgram /\ InBody(<<1, 2, 3>>)
  /\ CaseBindings("a", <<1, 2, 2>>) # {}
  /\ result \cap CaseBindings("a", <<1, 2, 2>>) = {}
  /\ \E v \in visited : v[1] = Port(<<1, 2>>, "before_scope")

\* Classes A, B and C(A, B) are the first three statements of the file;
\* C.m is the fourth statement, C().m the fifth, and self.m is in the body
\* of C's method.
Inherit == Rules /\ unit.prog.name = "inherit"

Defines(k) == unit.prog.opts[k] = "yes"

OnClass == Query \in ReferencesOf("m", <<1, 4>>)
OnInstance == Query \in ReferencesOf("m", <<1, 5>>)
OnSelf == Query \in ReferencesOf("m", <<1, 3, 3>>)

\* C17 as claimed: looked up on C or on an instance of C, m resolves to the
\* m of C's body alone when C's body defines it, and to the m of A alone
\* when C's body does not and both A and B define it.
C17_SubclassThenSuperclasses ==
  (pc = "done" /\ Inherit /\ (OnClass \/ OnInstance)) =>
    /\ Defines(3) => result = DefinitionsOf("m", <<1, 3>>)
    /\ (~Defines(3) /\ Defines(1) /\ Defines(2)) => result = DefinitionsOf("m", <<1, 1>>)

\* C18 as claimed: with m defined in C's body, the attribute reference m in
\* C().m, and in self.m inside a method of C whose first parameter is self,
\* resolves to the definition of m in C's body.
C18_InstanceMemberAccess ==
  (pc = "done" /\ Inherit /\ Defines(3) /\ (OnInstance \/ OnSelf)) =>
    result = DefinitionsOf("m", <<1, 3>>)

\* The file of "paths" is file 1; its first statement is the relative
\* import, whose prefix is the first child of its relative_import node.
Paths == Rules /\ unit.prog.name = "paths"

Dirs == unit.prog.opts[1]
Prefix == unit.prog.opts[3]
PrefixRef == Port(<<1, 1, 1, 1>>, "ref")
PrefixTargets == {e.dst : e \in {e \in G.edges : e.src = PrefixRef}}

\* The node n starts the reference chain of the package named by the
\* first k directories of the file's path: it pushes the k-th directory
\* and each edge on leads, over a ".", to the directory before, down to
\* the first, which alone has the edge to Root.
RECURSIVE ChainOf(_, _)
ChainOf(n, k) ==
  /\ n \in DOMAIN G.attr /\ G.attr[n].op = "push" /\ G.attr[n].sym = Dirs[k]
  /\ LET next == {e.dst : e \in {e \in G.edges : e.src = n}} IN
       IF k = 1 THEN next = {Root}
       ELSE \A d \in next :
              /\ G.attr[d].op = "push" /\ G.attr[d].sym = "."
              /\ \A e \in G.edges : e.src = d => ChainOf(e.dst, k - 1)

RelativeQuery == pc = "done" /\ Paths /\ Len(Dirs) >= 1 /\ Query \in ReferencesOf("x", <<1, 1>>)

\* C19 as claimed: in a file with at least one directory in its path, the
\* reference node of a "." prefix leads only to the chain of the containing
\* package, that of a ".." prefix only to the chain of the package one
\* level above the containing package, and neither has an edge to Root.
C19_PrefixTargetsByLevel ==
  RelativeQuery =>
    /\ PrefixTargets # {} /\ Root \notin PrefixTargets
    /\ \A t \in PrefixTargets :
         IF Prefix = "." THEN ChainOf(t, Len(Dirs))
         ELSE Len(Dirs) >= 2 /\ ChainOf(t, Len(Dirs) - 1)

\* C19, amended: the reference node of a ".." prefix leads to the chain of
\* the package one level above the containing package only when the path
\* has at least two directories; with one directory it leads to the chain
\* of the containing package, as a "." prefix does.
C19_PrefixTargetsClamped ==
  RelativeQuery =>
    /\ PrefixTargets # {} /\ Root \notin PrefixTargets
    /\ \A t \in PrefixTargets :
         IF Prefix = "." \/ Len(Dirs) = 1 THEN ChainOf(t, Len(Dirs))
         ELSE ChainOf(t, Len(Dirs) - 1)
    /\ \A v \in visited : v[1] = Root => Syms(v[2])[1] = Dirs[1]

\* C19 witness: in pkg/sub/ the name imported by from .. import x has been
\* looked up through the prefix's reference node and the chain of pkg, and
\* has arrived at Root with pkg on top of the stack.
C19_Witness ==
  /\ RelativeQuery /\ Len(Dirs) = 2 /\ Prefix = ".."
  /\ \E v \in visited : v[1] = PrefixRef
  /\ \E v \in visited : v[1] = Root /\ Syms(v[2]) = <<"pkg", ".", "x">>

\* The classes K1, K2, K3 are the first three statements of the file, f
\* is the fourth and f().a the fifth.
Returns == Rules /\ unit.prog.name = "returns"

\* The function a return statement belongs to: the nearest enclosing one.
RECURSIVE FunctionOf(_)
FunctionOf(p) ==
  IF Tree[p].kind = "function_definition" THEN p ELSE FunctionOf(Parent(p))

Returned(f) ==
  {Port(Append(s, 1), "output") : s \in {s \in Of(Tree, "return_statement") : FunctionOf(s) = f}}

Sink(f) == Port(f, "return_value")

\* Every function has one sink; the edges that leave it lead to the
\* expressions of the function's own return statements, one edge each,
\* and to nothing else.
ReturnEdges ==
  \A f \in Of(Tree, "function_definition") :
    /\ Link(Port(f, "call"), Sink(f)) \in G.edges
    /\ {e.dst : e \in {e \in G.edges : e.src = Sink(f)}} = Returned(f)

ReturnsQuery == pc = "done" /\ Returns /\ Query \in ReferencesOf("a", <<1, 5>>)

\* C20 as claimed: the returned expressions of f, at any block depth and
\* without those of the function nested in f, all hang off f's one sink,
\* the return of the nested function off the nested function's sink only,
\* and the attribute reference a in f().a resolves to the union of what
\* the returned values of f provide: the a of K1 and the a of K2.
C20_ReturnsFeedOneSink ==
  ReturnsQuery =>
    /\ ReturnEdges
    /\ result = DefinitionsOf("a", <<1, 2>>)
                \cup (IF unit.prog.opts[1] = "yes" THEN DefinitionsOf("a", <<1, 1>>) ELSE {})

\* The part of C20 that holds: the edges of the sinks.
C20_ReturnEdges == (pc = "done" /\ Returns) => ReturnEdges

\* The module of "paths" named mod.py: its path segments, ".py" removed.
PathsModule == Paths /\ unit.prog.opts[2] = "mod.py"

Segments == Dirs \o <<"mod">>

Successors(n) == {e.dst : e \in {e \in G.edges : e.src = n}}

\* From n the chain pops segs[k], ".", segs[k + 1], ".", ... in that order
\* and nothing else, and after the last "." it reaches the module's
\* top-level scope.
RECURSIVE PopsInOrder(_, _, _)
PopsInOrder(n, segs, k) ==
  /\ G.attr[n].op = "pop" /\ G.attr[n].sym = segs[k]
  /\ Successors(n) # {}
  /\ \A d \in Successors(n) :
       /\ G.attr[d].op = "pop" /\ G.attr[d].sym = "."
       /\ Successors(d) # {}
       /\ \A t \in Successors(d) :
            IF k = Len(segs) THEN Successors(t) = {Port(<<1>>, "after_scope")}
            ELSE PopsInOrder(t, segs, k + 1)

\* The nodes of the chain that pop the segments, in order.
RECURSIVE SegmentNodes(_, _)
SegmentNodes(n, k) ==
  IF k = 0 THEN << >>
  ELSE <<n>> \o SegmentNodes(CHOOSE t \in UNION {Successors(d) : d \in Successors(n)} : TRUE,
                              k - 1)

DefChain == SegmentNodes(Port(<<1>>, "file_def"), Len(Segments))

\* The nodes that push a segment and lead, over "." nodes, to Root.
PushChain ==
  {n \in DOMAIN G.attr :
     /\ n # Root /\ n[2] \in {RefPorts[j] : j \in DOMAIN RefPorts}
     /\ G.attr[n].op = "push"}

\* s1, ".", s2, ".", ..., sk, "."
RECURSIVE Dotted(_)
Dotted(segs) == IF segs = << >> THEN << >> ELSE <<Head(segs), ".">> \o Dotted(Tail(segs))

PathQuery == pc = "done" /\ PathsModule /\ Query \in ReferencesOf("x", <<1, 1>>)

Rebinding == Rules /\ unit.prog.name = "rebind"

RebindQuery == pc = "done" /\ Rebinding /\ Query \in ReferencesOf("f", <<1, 3>>)

\* C22 as claimed: whatever construct makes the later binding of f, the
\* reference in the following statement resolves to the later binding only.
C22_LaterBindingShadows ==
  RebindQuery => result = DefinitionsOf("f", <<1, 2>>)

\* The part of C22 that holds: an assignment and a plain import shadow the
\* earlier binding; a function, a class and an aliased import are found
\* together with it.
C22_ShadowsByPrecedence ==
  RebindQuery =>
    result = IF unit.prog.opts[1] \in {"assign", "import"} THEN DefinitionsOf("f", <<1, 2>>)
             ELSE DefinitionsOf("f", <<1, 2>>) \cup DefinitionsOf("f", <<1, 1>>)

\* The pattern list is the left side of the first statement; its elements
\* are its children, in order.
TupleProgram == Rules /\ unit.prog.name = "tuple"

Occurrences(name) == {k \in 1 .. 3 : unit.prog.opts[k] = name}

ElementDef(k) == Port(<<1, 1, 1, 1, k>>, "input")

TupleQuery == pc = "done" /\ TupleProgram /\ Query \in ReferencesOf("a", <<1, 2>>)

\* C23: a later reference to a name that a pattern list binds resolves
\* only to the occurrence with the highest position, whether the name is
\* bound at one position or at several; the edge from the statement scope
\* to the element at index i has precedence i + 1.
C23_HighestPositionWins ==
  TupleQuery =>
    /\ result = IF Occurrences("a") = {} THEN {} ELSE {ElementDef(Max(Occurrences("a")))}
    /\ \A k \in 1 .. 3 :
         Edge(Port(<<1, 1>>, "before_scope"),
              Port(<<1, 1, 1, 1, k>>, "pattern_before_scope"), k) \in G.edges

\* C23 witness: a, a, b = 1 has been resolved for a to the second element,
\* after the third element, tried first, did not match.
C23_Witness ==
  /\ TupleQuery /\ unit.prog.opts = <<"a", "a", "b">>
  /\ result = {ElementDef(2)}
  /\ \E v \in visited : v[1] = Port(<<1, 1, 1, 1, 3>>, "pattern_before_scope")
  /\ ~\E v \in visited : v[1] = Port(<<1, 1, 1, 1, 1>>, "pattern_before_scope")

(***************************************************************************)
(* Webview context: requests to the extension host and their answers.      *)
(***************************************************************************)
\* The graph service is not part of the webview bundle: in the webview
\* specifications its state stands still.
Unloaded ==
  /\ unit = [fam |-> "none"]
  /\ graph = EmptyGraph
  /\ pc = "off"
  /\ built = {}
  /\ linked = {}
  /\ last = NoStep
  /\ frames = << >>
  /\ visited = {}
  /\ hits = {}
  /\ log = {}
  /\ result = {}
  /\ earlier = << >>

\* Most calls of webviewContextValue (renders of the provider) and of
\* callApi that are followed.
MaxRenders == 3

MaxRequests == 3

\* ViewEvents keys and the callbacks components register for them.
Keys == {"exampleBMessage"}

Callbacks == {"cb"}

\* const id = uuid(): the n-th id is fresh.
uuid(n) == n

\* new DeferredPromise()
Deferred == [promise |-> "pending", settled |-> 0]

\* deferred.resolve(value) / deferred.reject(error): the promise settles on
\* the first call only; every call is counted.
Settle(d, how) ==
  [promise |-> IF d.promise = "pending" THEN how ELSE d.promise,
   settled |-> d.settled + 1]

\* pendingRequests[data.id] of the i-th webviewContextValue call is defined.
Has(i, id) == id \in pendingRequests[i]

\* const onMessage = (e) => { ... } of the i-th webviewContextValue call,
\* applied to the deferreds d, the throw log t and the callback log r:
\* pendingRequests[data.id].resolve of an id this call never recorded is a
\* property access on undefined, a TypeError.
onMessage(i, e, w) ==
  IF e.type = "response"
  THEN IF Has(i, e.id)
       THEN [w EXCEPT !.deferreds[e.id] = Settle(@, "resolved")]
       ELSE [w EXCEPT !.thrown = @ \cup {<<i, e>>}]
  ELSE IF e.type = "error"
  THEN IF Has(i, e.id)
       THEN [w EXCEPT !.deferreds[e.id] = Settle(@, "rejected")]
       ELSE [w EXCEPT !.thrown = @ \cup {<<i, e>>}]
  ELSE IF e.type = "event"
  THEN [w EXCEPT !.received = @ \cup {<<i, l[1], l[2]>> : l \in {x \in listeners[i] : x[1] = e.key}}]
  ELSE w

\* window.addEventListener("message", onMessage) is never undone: a message
\* event runs the onMessage of every webviewContextValue call so far, in
\* the order they were registered; a listener that throws does not stop
\* the ones after it.
RECURSIVE Dispatched(_, _, _)
Dispatched(i, e, w) ==
  IF i > Len(pendingRequests) THEN w ELSE Dispatched(i + 1, e, onMessage(i, e, w))

\* WithWebviewContext renders: useState, then webviewContextValue makes a
\* new pendingRequests and listeners and registers a new onMessage.
WithWebviewContext ==
  /\ Len(pendingRequests) < MaxRenders
  /\ pendingRequests' = Append(pendingRequests, {})
  /\ listeners' = Append(listeners, {})
  /\ UNCHANGED <<deferreds, posted, thrown, received>>
  /\ UNCHANGED <<store, panelVars, ingestionVars>>

\* The context value consumers see is the one of the latest render.
Current == Len(pendingRequests)

\* callApi(key, ...params)
callApi(key) ==
  /\ Len(deferreds) < MaxRequests
  /\ LET id == uuid(Len(deferreds) + 1) IN
       /\ deferreds' = Append(deferreds, Deferred)
       /\ pendingRequests' = [pendingRequests EXCEPT ![Current] = @ \cup {id}]
       /\ posted' = posted \cup {[type |-> "request", id |-> id, key |-> key]}
  /\ UNCHANGED <<listeners, thrown, received>>
  /\ UNCHANGED <<store, panelVars, ingestionVars>>

\* addListener(key, cb)
addListener(key, cb) ==
  /\ listeners' = [listeners EXCEPT ![Current] = @ \cup {<<key, cb>>}]
  /\ UNCHANGED <<pendingRequests, deferreds, posted, thrown, received>>
  /\ UNCHANGED <<store, panelVars, ingestionVars>>

\* removeListener(key, cb)
removeListener(key, cb) ==
  /\ \E l \in listeners[Current] : l[1] = key
  /\ listeners' = [listeners EXCEPT ![Current] = @ \ {<<key, cb>>}]
  /\ UNCHANGED <<pendingRequests, deferreds, posted, thrown, received>>
  /\ UNCHANGED <<store, panelVars, ingestionVars>>

\* A message event from the extension host reaches the window: the answer
\* ("response" or "error") to a posted request, once per request, or an
\* event.
Message(e) ==
  /\ LET w == Dispatched(1, e, [deferreds |-> deferreds, thrown |-> thrown,
                                received |-> received])
     IN /\ deferreds' = w.deferreds
        /\ thrown' = w.thrown
        /\ received' = w.received
  /\ posted' = {q \in posted : e.type = "event" \/ q.id # e.id}
  /\ UNCHANGED <<pendingRequests, listeners>>
  /\ UNCHANGED <<store, panelVars, ingestionVars>>

Answer ==
  \E q \in posted, t \in {"response", "error"} : Message([type |-> t, id |-> q.id])

Event ==
  \E k \in Keys : Message([type |-> "event", key |-> k])

\* root.render(<WithWebviewContext ...>): the provider has rendered once.
WebviewInit ==
  /\ Unloaded
  /\ pendingRequests = <<{}>>
  /\ listeners = <<{}>>
  /\ deferreds = << >>
  /\ posted = {}
  /\ thrown = {}
  /\ received = {}
  /\ panelState = initalPanelState
  /\ origin = initalPanelState
  /\ called = NoCall
  /\ generated = 0
  /\ progress = 0
  /\ intervalId = "none"
  /\ ticks = 0
  /\ callbacks = << >>
  /\ updates = << >>
  /\ isLoading = FALSE

WebviewNext ==
  \/ WithWebviewContext
  \/ \E k \in Keys : callApi(k)
  \/ \E k \in Keys, cb \in Callbacks : addListener(k, cb)
  \/ \E k \in Keys, cb \in Callbacks : removeListener(k, cb)
  \/ Answer
  \/ Event

WebviewSpec == WebviewInit /\ [][WebviewNext]_vars

\* The ids whose request has been answered.
Answered == {id \in 1 .. Len(deferreds) : ~\E q \in posted : q.id = id}

\* The call of webviewContextValue that recorded the request.
Holder(id) == CHOOSE i \in 1 .. Len(pendingRequests) : id \in pendingRequests[i]

\* C24: every callApi call records a pending request under a fresh id
\* before posting it, and the response or error carrying that id settles
\* exactly that request's promise, exactly once, without the message
\* handler throwing and without settling any other pending request, also
\* when the provider has rendered again between request and answer.
C24_AnswerSettlesItsRequest ==
  /\ \A q \in posted :
       /\ \E i \in 1 .. Len(pendingRequests) : q.id \in pendingRequests[i]
       /\ deferreds[q.id] = Deferred
  /\ \A id \in Answered : deferreds[id].promise # "pending" /\ deferreds[id].settled = 1
  /\ thrown = {}

\* C24, the part the code keeps: a request lives in exactly one call's
\* pendingRequests, its answer settles its promise exactly once and no
\* other, and onMessage throws exactly in the other calls' listeners.
C24_SettledOnceButOthersThrow ==
  /\ \A id \in 1 .. Len(deferreds) :
       Cardinality({i \in 1 .. Len(pendingRequests) : id \in pendingRequests[i]}) = 1
  /\ \A q \in posted : deferreds[q.id] = Deferred
  /\ \A id \in Answered : deferreds[id].promise # "pending" /\ deferreds[id].settled = 1
  /\ \A t \in thrown : t[2].id \in Answered /\ t[1] # Holder(t[2].id)

(***************************************************************************)
(* Chat controller: the state updaters of the conversation view.           *)
(***************************************************************************)
\* Most conversations created, and the longest message list that is still
\* replied to.
MaxConversations == 2

MaxMessages == 4

\* v4(): the n-th generated id, different from every earlier one and from
\* the ids of dummy.ts.
v4(n) == <<"uuid1", "uuid2", "uuid3", "uuid4">>[n]

\* `Conversation: ${conversationId}`
Title(conversationId) ==
  CASE conversationId = "uuid1" -> "Conversation: uuid1"
    [] conversationId = "uuid2" -> "Conversation: uuid2"
    [] conversationId = "uuid3" -> "Conversation: uuid3"
    [] OTHER -> "Conversation: uuid4"

\* Date.now() when a conversation is created: the wall clock, at or after
\* the load of dummy.ts, or set back to before it.
Clock == {Loaded - 1001, Loaded - 1000, Loaded, Loaded + 1}

\* { ...obj, field: value }
Spread(obj, field, value) ==
  [f \in DOMAIN obj \cup {field} |-> IF f = field THEN value ELSE obj[f]]

\* Mutant of sort: the array is left in the order it was built.
unsorted(array) == array

\* array.sort((a, b) => b.createdAt - a.createdAt): stable, so an element
\* goes behind the newer ones and behind the equally new ones that stood
\* before it.
sort(array) ==
  LET Before(i) ==
        {j \in DOMAIN array :
           \/ array[j].createdAt > array[i].createdAt
           \/ array[j].createdAt = array[i].createdAt /\ j < i}
  IN [k \in DOMAIN array |->
        array[CHOOSE i \in DOMAIN array : Cardinality(Before(i)) + 1 = k]]

\* Mutant of createNewConversation: the new id is selected but the list
\* is the old one.
createNewConversationUnlisted(prevState, conversationId, now) ==
  IF "chat" \in DOMAIN prevState
  THEN Spread(prevState, "chat",
              Spread(prevState.chat, "selectedConversationId", conversationId))
  ELSE prevState

\* createNewConversation(prevState), with the id v4() and the time
\* Date.now() return. The spread [...chatState.conversations,
\* newConversation] is a new array, so the sort does not touch prevState.
createNewConversation(prevState, conversationId, now) ==
  LET chatState ==
        IF "chat" \in DOMAIN prevState THEN prevState.chat
        ELSE [conversations |-> << >>, selectedConversationId |-> undefined,
              hasOpenAIApiKey |-> FALSE, surfacePromptForOpenAIPlus |-> FALSE]
      newConversation ==
        [id |-> conversationId,
         header |-> [title |-> Title(conversationId), isTitleMessage |-> TRUE,
                     codicon |-> "wand"],
         content |-> [type |-> "messageExchange",
                      messages |-> << >>,
                      state |-> [type |-> "userCanReply",
                                 responsePlaceholder |-> "Type your response..."]],
         createdAt |-> now]
      updatedConversations == sort(chatState.conversations \o <<newConversation>>)
  IN Spread(prevState, "chat",
            Spread(Spread(chatState, "conversations", updatedConversations),
                   "selectedConversationId", conversationId))

\* The map callback of onClickReply.
Replied(conversation, conversationId, message) ==
  IF conversation.id = conversationId /\ conversation.content.type = "messageExchange"
  THEN LET userMessage == [author |-> "user", content |-> message]
           updatedMessages ==
             conversation.content.messages
               \o <<userMessage, [author |-> "bot", content |-> "Thank you for your reply."]>>
           updatedContent ==
             Spread(Spread(conversation.content, "messages", updatedMessages),
                    "state", Spread(conversation.content.state, "type", "userCanReply"))
       IN Spread(conversation, "content", updatedContent)
  ELSE conversation

\* Mutant of onClickReply: the copy of src/unnamed/part_004 (lines 46-88),
\* which sorts the conversations it returns.
onClickReplySorted(prevState, conversationId, message) ==
  IF "chat" \notin DOMAIN prevState THEN prevState
  ELSE Spread(prevState, "chat",
              Spread(prevState.chat, "conversations",
                     sort([i \in DOMAIN prevState.chat.conversations |->
                             Replied(prevState.chat.conversations[i], conversationId, message)])))

\* onClickReply(prevState, conversationId, message)
onClickReply(prevState, conversationId, message) ==
  IF "chat" \notin DOMAIN prevState THEN prevState
  ELSE LET updatedConversations ==
             [i \in DOMAIN prevState.chat.conversations |->
                Replied(prevState.chat.conversations[i], conversationId, message)]
       IN Spread(prevState, "chat",
                 Spread(prevState.chat, "conversations", updatedConversations))

\* clickCollapsedConversation(prevState, conversationId)
clickCollapsedConversation(prevState, conversationId) ==
  IF "chat" \notin DOMAIN prevState THEN prevState
  ELSE Spread(prevState, "chat",
              Spread(prevState.chat, "selectedConversationId", conversationId))

\* The conversations of a panel state, none when it has no chat.
Conversations(state) ==
  IF "chat" \in DOMAIN state THEN state.chat.conversations ELSE << >>

Listed(state) == {Conversations(state)[i].id : i \in DOMAIN Conversations(state)}

\* Panel states the updaters are applied to: the one of dummy.ts, one
\* without a chat, and one whose conversations are not all message
\* exchanges a user can reply to (schema/PanelState.ts; the other content
\* and state types stand for any value the tests of lines 63-66 and 80-83
\* distinguish).
NoChatState == [login |-> [isLoggedIn |-> TRUE], settings |-> [view |-> "chat"]]

MixedState ==
  [chat |->
    [conversations |->
       <<[id |-> "conv3",
          header |-> [title |-> "Waiting", isTitleMessage |-> FALSE, codicon |-> "comment"],
          content |-> [type |-> "messageExchange",
                       messages |-> <<[author |-> "user", content |-> "Hello"]>>,
                       state |-> [type |-> "waitingForBotAnswer"]],
          createdAt |-> Loaded - 1000],
         [id |-> "conv4",
          header |-> [title |-> "Refinement", isTitleMessage |-> FALSE, codicon |-> "edit"],
          content |-> [type |-> "instructionRefinement"],
          createdAt |-> Loaded]>>,
     selectedConversationId |-> undefined,
     hasOpenAIApiKey |-> TRUE,
     surfacePromptForOpenAIPlus |-> TRUE],
   diff |-> [oldCode |-> "a", newCode |-> "b"],
   settings |-> [view |-> "chat"]]

PanelStates == {initalPanelState, NoChatState, MixedState}

\* What the user types.
Typed == {"hello"}

\* handleCreateNewConversation: setPanelState(createNewConversation)
CreateNewConversation ==
  /\ generated < MaxConversations
  /\ \E now \in Clock :
       LET id == v4(generated + 1) IN
         /\ panelState' = createNewConversation(panelState, id, now)
         /\ called' = [name |-> "createNewConversation", prevState |-> panelState,
                       conversationId |-> id, now |-> now]
  /\ generated' = generated + 1
  /\ UNCHANGED origin
  /\ UNCHANGED <<store, webviewVars, ingestionVars>>

\* handleOnClickReply(conversationId, message)
OnClickReply ==
  /\ \E id \in Listed(panelState) \cup {"conv0"}, message \in Typed :
       /\ \A i \in DOMAIN Conversations(panelState) :
            /\ Conversations(panelState)[i].id = id
            /\ Conversations(panelState)[i].content.type = "messageExchange"
            => Len(Conversations(panelState)[i].content.messages) < MaxMessages
       /\ panelState' = onClickReply(panelState, id, message)
       /\ called' = [name |-> "onClickReply", prevState |-> panelState,
                     conversationId |-> id, message |-> message]
  /\ UNCHANGED <<origin, generated>>
  /\ UNCHANGED <<store, webviewVars, ingestionVars>>

\* handleclickCollapsedConversation(conversation.id), for a conversation
\* the view lists.
ClickCollapsedConversation ==
  /\ \E id \in Listed(panelState) :
       /\ panelState' = clickCollapsedConversation(panelState, id)
       /\ called' = [name |-> "clickCollapsedConversation", prevState |-> panelState,
                     conversationId |-> id]
  /\ UNCHANGED <<origin, generated>>
  /\ UNCHANGED <<store, webviewVars, ingestionVars>>

PanelInit ==
  /\ Unloaded
  /\ panelState \in PanelStates
  /\ origin = panelState
  /\ called = NoCall
  /\ generated = 0
  /\ pendingRequests = <<{}>>
  /\ listeners = <<{}>>
  /\ deferreds = << >>
  /\ posted = {}
  /\ thrown = {}
  /\ received = {}
  /\ progress = 0
  /\ intervalId = "none"
  /\ ticks = 0
  /\ callbacks = << >>
  /\ updates = << >>
  /\ isLoading = FALSE

PanelNext == CreateNewConversation \/ OnClickReply \/ ClickCollapsedConversation

PanelSpec == PanelInit /\ [][PanelNext]_vars

\* How many listed conversations carry the id.
Count(state, id) ==
  Cardinality({i \in DOMAIN Conversations(state) : Conversations(state)[i].id = id})

\* C25: in every panel state reached from the initial panel state by
\* createNewConversation, onClickReply and clickCollapsedConversation (the
\* last with the id of a listed conversation), the selected id is the id
\* of exactly one listed conversation and the ids are pairwise distinct.
C25_SelectedIsOneListed ==
  origin = initalPanelState =>
    /\ "chat" \in DOMAIN panelState
    /\ Count(panelState, panelState.chat.selectedConversationId) = 1
    /\ \A id \in Listed(panelState) : Count(panelState, id) = 1

\* C25 witness: from the initial panel state two conversations were made,
\* one was replied to and an older one has been selected again.
C25_Witness ==
  /\ origin = initalPanelState
  /\ generated = 2
  /\ called.name = "clickCollapsedConversation"
  /\ panelState.chat.selectedConversationId = "conv2"
  /\ Len(panelState.chat.conversations) = 4
  /\ \E i \in 1 .. 4 : Len(panelState.chat.conversations[i].content.messages) = 5

\* How often a conversation occurs in a list.
Occurs(list, c) == Cardinality({i \in DOMAIN list : list[i] = c})

\* The fields of a panel state other than chat are those of the previous
\* state, with their values.
SameElsewhere(prev, next) ==
  /\ DOMAIN next \ {"chat"} = DOMAIN prev \ {"chat"}
  /\ \A f \in DOMAIN prev \ {"chat"} : next[f] = prev[f]

C27_ReplyAppendsTwoMessages ==
  called.name = "onClickReply" =>
    LET prev == called.prevState IN
      IF "chat" \notin DOMAIN prev THEN panelState = prev
      ELSE LET old == prev.chat.conversations
               new == panelState.chat.conversations
           IN /\ DOMAIN new = DOMAIN old
              /\ \A i \in DOMAIN old :
                   IF old[i].id = called.conversationId
                      /\ old[i].content.type = "messageExchange"
                   THEN /\ Len(new[i].content.messages) = Len(old[i].content.messages) + 2
                        /\ SubSeq(new[i].content.messages, 1, Len(old[i].content.messages))
                             = old[i].content.messages
                        /\ new[i].content.messages[Len(old[i].content.messages) + 1]
                             = [author |-> "user", content |-> called.message]
                        /\ new[i].content.messages[Len(old[i].content.messages) + 2].author
                             = "bot"
                        /\ new[i].content.state.type = "userCanReply"
                        /\ new[i].content.type = "messageExchange"
                        /\ new[i].id = old[i].id
                        /\ new[i].header = old[i].header
                        /\ new[i].createdAt = old[i].createdAt
                   ELSE new[i] = old[i]
              /\ called.conversationId \notin Listed(prev) => new = old
              /\ panelState.chat.selectedConversationId = prev.chat.selectedConversationId
              /\ SameElsewhere(prev, panelState)
              /\ \A f \in DOMAIN prev.chat \ {"conversations"} :
                   panelState.chat[f] = prev.chat[f]

\* C27 witness: the waiting conversation of the mixed state was replied
\* to and the user can reply again; it is still listed first, before the
\* newer one.
C27_Witness ==
  /\ called.name = "onClickReply"
  /\ called.conversationId = "conv3"
  /\ called.prevState = MixedState
  /\ Len(panelState.chat.conversations[1].content.messages) = 3
  /\ panelState.chat.conversations[1].content.state.type = "userCanReply"
  /\ panelState.chat.conversations[1].createdAt < panelState.chat.conversations[2].createdAt

(***************************************************************************)
(* Ingestion: the simulated process and the screen that starts it.         *)
(***************************************************************************)
\* const interval = 300
interval == 300

\* const increment = 100 / (3000 / interval): both quotients are whole.
increment == 100 \div (3000 \div interval)

\* Most timer callbacks that are followed.
MaxTicks == 12

\* Mutant of clearInterval: the timer stays set.
leaveInterval(id) == id

\* clearInterval(intervalId)
clearInterval(id) == "cleared"

\* The updaters the screens hand to setPanelState.
StartUpdater == [kind |-> "start"]

ProgressUpdater(value) == [kind |-> "progress", progress |-> value]

CompleteUpdater == [kind |-> "complete"]

\* One updater applied to the previous state.
Updated(prevState, updater) ==
  CASE updater.kind = "start" ->
         Spread(prevState, "ingestion", [indexingProgress |-> 0, status |-> "inProgress"])
    [] updater.kind = "progress" ->
         Spread(prevState, "ingestion",
                Spread(IF "ingestion" \in DOMAIN prevState THEN prevState.ingestion
                       ELSE [status |-> "notStarted", indexingProgress |-> 0],
                       "indexingProgress", updater.progress))
    [] updater.kind = "complete" ->
         Spread(Spread(prevState, "ingestion",
                       [indexingProgress |-> 100, status |-> "completed"]),
                "settings", [view |-> "chat"])
    [] updater.kind = "login" ->
         Spread(prevState, "login", [isLoggedIn |-> TRUE])
    [] OTHER ->
         Spread(prevState, "settings", [view |-> "ingestion"])

\* React applies the queued updaters in the order they were queued.
RECURSIVE Flushed(_, _)
Flushed(state, queue) ==
  IF queue = << >> THEN state
  ELSE Flushed(Updated(state, Head(queue)), Tail(queue))

Status(state) ==
  IF "ingestion" \in DOMAIN state THEN state.ingestion.status ELSE undefined

\* The screen AppRouter shows.
Shown(state) == state.settings.view

\* IngestionScreen after a render: it is mounted while the view is
\* "ingestion"; its effect follows a changed status.
Loading(before, after, loading) ==
  IF Shown(after) # "ingestion" THEN FALSE
  ELSE IF Status(after) # Status(before) THEN Status(after) = "inProgress"
  ELSE loading

\* LoginScreen: handleLogin, a click, rendered before the next event.
HandleLogin ==
  /\ Shown(panelState) = "login"
  /\ panelState' = Flushed(panelState,
                           updates \o <<[kind |-> "login"], [kind |-> "navigate"]>>)
  /\ updates' = << >>
  /\ isLoading' = Loading(panelState, panelState', isLoading)
  /\ UNCHANGED <<progress, intervalId, ticks, callbacks>>
  /\ UNCHANGED <<store, webviewVars, origin, called, generated>>

\* IngestionScreen: handleStartIngestion, a click on the button that is
\* shown while not loading; startIngestionProcess sets the timer.
HandleStartIngestion ==
  /\ Shown(panelState) = "ingestion"
  /\ ~isLoading
  /\ intervalId = "none"
  /\ panelState' = Flushed(panelState, updates \o <<StartUpdater>>)
  /\ updates' = << >>
  /\ isLoading' = TRUE
  /\ progress' = 0
  /\ intervalId' = "set"
  /\ UNCHANGED <<ticks, callbacks>>
  /\ UNCHANGED <<store, webviewVars, origin, called, generated>>

\* The setInterval callback of simulateIngestionProcess.
Tick ==
  /\ intervalId = "set"
  /\ ticks < MaxTicks
  /\ ticks' = ticks + 1
  /\ progress' = progress + increment
  /\ IF progress' >= 100
     THEN /\ intervalId' = clearInterval(intervalId)
          /\ callbacks' = callbacks \o
               <<[fn |-> "onUpdateProgress", progress |-> 100, tick |-> ticks'],
                 [fn |-> "onComplete", tick |-> ticks']>>
          /\ updates' = updates \o <<ProgressUpdater(100), CompleteUpdater>>
     ELSE /\ intervalId' = intervalId
          /\ callbacks' = Append(callbacks,
               [fn |-> "onUpdateProgress", progress |-> progress', tick |-> ticks'])
          /\ updates' = Append(updates, ProgressUpdater(progress'))
  /\ UNCHANGED <<panelState, isLoading>>
  /\ UNCHANGED <<store, webviewVars, origin, called, generated>>

\* React renders: the updaters queued by timer callbacks are applied.
Flush ==
  /\ updates # << >>
  /\ panelState' = Flushed(panelState, updates)
  /\ updates' = << >>
  /\ isLoading' = Loading(panelState, panelState', isLoading)
  /\ UNCHANGED <<progress, intervalId, ticks, callbacks>>
  /\ UNCHANGED <<store, webviewVars, origin, called, generated>>

\* Panel states the screens start from: with or without a chat, on the
\* login or the ingestion screen, ingestion absent or not started.
IngestionStates ==
  {Spread(b, "settings", [view |-> v]) : b \in {initalPanelState, NoChatState},
                                          v \in {"login", "ingestion"}}
  \cup {Spread(Spread(b, "settings", [view |-> v]), "ingestion",
               [indexingProgress |-> 0, status |-> "notStarted"])
          : b \in {initalPanelState, NoChatState}, v \in {"login", "ingestion"}}

IngestionInit ==
  /\ Unloaded
  /\ panelState \in IngestionStates
  /\ origin = panelState
  /\ called = NoCall
  /\ generated = 0
  /\ pendingRequests = <<{}>>
  /\ listeners = <<{}>>
  /\ deferreds = << >>
  /\ posted = {}
  /\ thrown = {}
  /\ received = {}
  /\ progress = 0
  /\ intervalId = "none"
  /\ ticks = 0
  /\ callbacks = << >>
  /\ updates = << >>
  /\ isLoading = FALSE

IngestionNext == HandleLogin \/ HandleStartIngestion \/ Tick \/ Flush

\* A set timer keeps firing and React renders what is queued.
IngestionSpec ==
  IngestionInit /\ [][IngestionNext]_vars /\ WF_vars(Tick) /\ WF_vars(Flush)

\* The onUpdateProgress calls, in order.
ProgressCalls == SelectSeq(callbacks, LAMBDA c : c.fn = "onUpdateProgress")

CompleteCalls == SelectSeq(callbacks, LAMBDA c : c.fn = "onComplete")

\* One onUpdateProgress per tick, strictly increasing and at most 100;
\* 100 and onComplete come together, once, on the tenth tick, with the
\* timer cleared, and nothing is called after them.
Orderly ==
  /\ Len(ProgressCalls) = ticks
  /\ \A k \in DOMAIN ProgressCalls :
       /\ ProgressCalls[k].tick = k
       /\ ProgressCalls[k].progress <= 100
       /\ k > 1 => ProgressCalls[k - 1].progress < ProgressCalls[k].progress
  /\ ticks <= 10
  /\ IF intervalId = "cleared"
     THEN /\ ticks = 10
          /\ Len(CompleteCalls) = 1
          /\ callbacks[Len(callbacks)] = [fn |-> "onComplete", tick |-> 10]
          /\ callbacks[Len(callbacks) - 1] =
               [fn |-> "onUpdateProgress", progress |-> 100, tick |-> 10]
     ELSE /\ CompleteCalls = << >>
          /\ \A k \in DOMAIN ProgressCalls : ProgressCalls[k].progress < 100

Started == intervalId = "set"

Completed ==
  /\ "ingestion" \in DOMAIN panelState
  /\ panelState.ingestion = [indexingProgress |-> 100, status |-> "completed"]
  /\ panelState.settings.view = "chat"

\* C28: once started, the simulated ingestion calls onUpdateProgress on
\* successive ticks with strictly increasing values of at most 100, the
\* last exactly 100, then onComplete exactly once on that same tick,
\* clears its timer and calls nothing further; it is done after ten
\* ticks, and the panel state eventually shows indexingProgress 100,
\* status completed and view chat.
C28_IngestionCompletes == []Orderly /\ (Started ~> Completed)

\* C28 witness: ten ticks have run, the eleven callbacks are made, the
\* timer is cleared and the rendered state is the completed one.
C28_Witness ==
  /\ intervalId = "cleared"
  /\ ticks = 10
  /\ Len(callbacks) = 11
  /\ updates = << >>
  /\ Completed

====
